---- MODULE Spec2Model ----
(***************************************************************************)
(* Model of the installer's task-execution core (tools/installer):         *)
(*   - the UI loop of main.rs (run_app and the per-view handlers),         *)
(*   - the Dispatcher (handle_installing_view and what it calls),          *)
(*   - the background execution thread (execute_process_step),             *)
(*   - the Cancellable Process Runner (spawn_cancelable_process).          *)
(* The UI thread and the background threads interleave; each UI handler   *)
(* is one atomic action because the handlers read nothing a background    *)
(* thread writes except through the channels, which they poll once.       *)
(***************************************************************************)
EXTENDS Integers, Sequences, FiniteSets, TLC

\* ------------------------------------------------------------------ bounds
\* Artifacts in the list of the active tab (indices 0 .. NumItems-1).
NumItems == 2
\* Cap on the number of items dispatched over all Processing sessions.
MaxOps == 2
\* Size of the pool of cancel-channel identities (re-used once unreferenced).
NumChans == 4
\* Seconds the wall clock advances in one TimePasses step.
ClockStep == 60
\* Components listed in the tab whose tree view is explored.
MaxComponents == 3
\* Entries in the MCP and plugin catalogs together.
MaxCatalog == 2
\* Characters the secret prompt's buffer holds at most.
MaxSecretLen == 1
\* Hook entries listed under one event of a settings document.
MaxHooks == 2
\* Characters the project path prompt's buffer holds at most.
MaxPathLen == 1
\* The stderr reader: lines a child writes at most, bytes of a line at most,
\* and the capture ceiling MAX_STDERR_BYTES (1 MiB in process.rs), scaled
\* down so that lines reach it.
MaxLines == 3
MaxLineLen == 2
MAX_STDERR_BYTES == 4

\* ------------------------------------------------------- program constants
McpRemoveTimeout == 30
McpInstallTimeout == 120
PluginRemoveTimeout == 30
PluginInstallTimeout == 60

Items == 0 .. (NumItems - 1)
Ops == 1 .. MaxOps
Chans == 1 .. NumChans

\* Option<T> is a sequence of length at most one.
None == <<>>
Some(x) == <<x>>
unwrap_or(o, d) == IF o = <<>> THEN d ELSE o[1]

\* ------------------------------------------------------------ text (tokens)
\* A string is a sequence of tokens; str.contains(pat) for a one-token pattern.
contains(msg, pat) == \E i \in 1 .. Len(msg) : msg[i] = pat

Blank == " "
RECURSIVE trim_start(_)
trim_start(s) == IF s # <<>> /\ Head(s) = Blank THEN trim_start(Tail(s)) ELSE s
RECURSIVE trim_end(_)
trim_end(s) ==
  IF s # <<>> /\ s[Len(s)] = Blank THEN trim_end(SubSeq(s, 1, Len(s) - 1)) ELSE s
trim(s) == trim_end(trim_start(s))

\* What a child may write to its standard error.
StderrTexts ==
  { <<>>, <<Blank>>, <<"boom">>, <<"Cancelled by user">>, <<"timed out">> }

\* The item's display name (a safe identifier: never one of the patterns above).
ItemName(idx) == "item" \o ToString(idx)

\* format_process_error(action, item_name, stderr_output)
format_process_error(action, item_name, stderr_output) ==
  IF trim(stderr_output) = <<>>
  THEN <<"Failed to", action, item_name>>
  ELSE <<"Failed to", action, item_name, ":">> \o trim(stderr_output)

TimedOutMsg(has_cleanup, secs) ==
  IF has_cleanup
  THEN <<"Installation", "timed out", "after", ToString(secs), "(cleanup may be incomplete)">>
  ELSE <<"Removal", "timed out", "after", ToString(secs)>>

CancelledMsg(has_cleanup) ==
  IF has_cleanup
  THEN <<"Cancelled by user", "(cleanup may be incomplete)">>
  ELSE <<"Cancelled by user">>

SysErrMsg == <<"System error during wait:", "EIO">>
SpawnErrMsg == <<"No such file or directory">>

\* -------------------------------------------------------------------- state
VARIABLES
  app,            \* App (app/mod.rs): the fields the execution core uses
  channels,       \* ProcessingChannels: endpoints and processing_active
  cancel_chan,    \* cancel channel id -> signals in flight (each tagged)
  process_chan,   \* results in flight on the process channel
  refresh_chan,   \* results in flight on the refresh channel
  threads,        \* op id -> the execution thread spawned for that dispatch
  scan_thread,    \* the loading / refresh scan thread
  op_seq,         \* number of dispatches so far (tags operations)
  tree,           \* TreeView of the active component tab (tree.rs)
  components,     \* App.components of that tab: name and selected flag
  tree_hist,      \* the TreeView method last applied and the state before it
  cat,            \* catalogs on disk, environment, and App's MCP/plugin fields
  disk,           \* source and destination settings.json, and the last operation
  reader          \* the stderr reader thread of one runner (process.rs)

core_vars == <<app, channels, cancel_chan, process_chan, refresh_chan, threads,
               scan_thread, op_seq>>
tree_vars == <<tree, components, tree_hist>>
\* Variables the execution core never touches.
side_vars == <<tree_vars, cat, disk, reader>>

vars == <<core_vars, side_vars>>

\* The thread before it is spawned, and after the Dispatcher consumed its result.
NoThread ==
  [ pc |-> "unspawned", kind |-> "none", removing |-> FALSE, idx |-> 0,
    rx |-> 0, stage |-> "none", has_cleanup |-> FALSE, timeout |-> 0,
    child |-> "none", status |-> 0, stderr |-> <<>>, elapsed |-> 0,
    killed |-> FALSE, exited |-> FALSE, exited_early |-> FALSE,
    wait_failed |-> FALSE,
    cancel_sends |-> 0, late_cancel |-> FALSE, got_signal |-> 0,
    cleanup_calls |-> 0, cleanup_ok |-> FALSE,
    outcome |-> "none", result |-> [ok |-> TRUE, msg |-> <<>>] ]

\* App::new and ProcessingChannels::new
CoreInit ==
  /\ app = [ target_cli |-> None, tab |-> "Agents", current_view |-> "CliSelection",
             should_quit |-> FALSE, status_message |-> None,
             processing_progress |-> None, processing_total |-> None,
             processing_log |-> <<>>, processing_queue |-> <<>>,
             is_removing |-> FALSE, needs_refresh |-> FALSE,
             refreshing |-> FALSE, processing_complete |-> FALSE,
             cancelling |-> FALSE ]
  /\ channels = [ cancel_tx |-> 1, cancel_rx |-> 1, current_cancel_tx |-> 1,
                  processing_active |-> FALSE ]
  /\ cancel_chan = [c \in Chans |-> <<>>]
  /\ process_chan = <<>>
  /\ refresh_chan = <<>>
  /\ threads = [o \in Ops |-> NoThread]
  /\ scan_thread = "none"
  /\ op_seq = 0

\* The UI handlers below are functions of S, the whole state as one record.
State ==
  [ app |-> app, channels |-> channels, cancel_chan |-> cancel_chan,
    process_chan |-> process_chan, refresh_chan |-> refresh_chan,
    threads |-> threads, scan_thread |-> scan_thread, op_seq |-> op_seq ]

Becomes(S) ==
  /\ app' = S.app
  /\ channels' = S.channels
  /\ cancel_chan' = S.cancel_chan
  /\ process_chan' = S.process_chan
  /\ refresh_chan' = S.refresh_chan
  /\ threads' = S.threads
  /\ scan_thread' = S.scan_thread
  /\ op_seq' = S.op_seq
  /\ UNCHANGED side_vars

\* ----------------------------------------------------------------- channels
\* A thread that still runs owns its cancel receiver and a process_tx clone.
ThreadLive(th) == th.pc \notin {"unspawned", "done", "crashed"}

LiveThreads(S) == {o \in Ops : ThreadLive(S.threads[o])}

\* The receiver of cancel channel c has not been dropped.
ReceiverLive(S, c) ==
  \/ c = S.channels.cancel_rx
  \/ \E o \in LiveThreads(S) : S.threads[o].rx = c

ChanReferenced(S, c) ==
  \/ c \in {S.channels.cancel_tx, S.channels.cancel_rx, S.channels.current_cancel_tx}
  \/ \E o \in LiveThreads(S) : S.threads[o].rx = c

\* mpsc::channel(): an identity no endpoint refers to.
FreshChan(S) ==
  CHOOSE c \in Chans :
    /\ ~ChanReferenced(S, c)
    /\ \A d \in Chans : ~ChanReferenced(S, d) => c <= d

\* Sender::send(()) on cancel channel c; it fails (ignored) once the receiver
\* is dropped.  The signal is tagged with the operation in flight when sent.
\* The thread fields cancel_sends and late_cancel record, for the runner that
\* owns the receiver, how many signals were sent to it and whether its child
\* had already exited with status zero when the signal was sent.
cancel_send(S, c) ==
  IF ~ReceiverLive(S, c) THEN S
  ELSE [S EXCEPT
          !.cancel_chan[c] = Append(@, [op |-> S.op_seq]),
          !.threads = [o \in Ops |->
             IF ThreadLive(S.threads[o]) /\ S.threads[o].rx = c
             THEN [S.threads[o] EXCEPT
                     !.cancel_sends = @ + 1,
                     !.late_cancel = (S.threads[o].child = "zombie"
                                      /\ S.threads[o].exited
                                      /\ S.threads[o].status = 0)]
             ELSE S.threads[o]]]

\* Senders of the process channel: process_tx, a field of ProcessingChannels
\* for the whole of run_app, and the tx_clone of each thread that still runs.
ProcessSenders(S) == 1 + Cardinality(LiveThreads(S))

\* Receiver::try_recv on the process channel.
process_try_recv(S) ==
  IF S.process_chan # <<>> THEN [tag |-> "Ok", val |-> Head(S.process_chan)]
  ELSE IF ProcessSenders(S) = 0 THEN [tag |-> "Disconnected"]
  ELSE [tag |-> "Empty"]

\* Senders of the refresh channel: refresh_tx of ProcessingChannels and the
\* tx_clone of a scan thread that still runs.
RefreshSenders(S) == 1 + (IF S.scan_thread = "running" THEN 1 ELSE 0)

refresh_try_recv(S) ==
  IF S.refresh_chan # <<>> THEN [tag |-> "Ok", val |-> Head(S.refresh_chan)]
  ELSE IF RefreshSenders(S) = 0 THEN [tag |-> "Disconnected"]
  ELSE [tag |-> "Empty"]

\* ProcessingChannels::take_cancel_rx: a new pair replaces cancel_tx/cancel_rx;
\* the old receiver is returned for the thread.
take_cancel_rx(S) ==
  LET c == FreshChan(S) IN
  [ old_rx |-> S.channels.cancel_rx,
    S |-> [S EXCEPT !.channels.cancel_rx = c, !.channels.cancel_tx = c,
                    !.cancel_chan[c] = <<>>] ]

\* ProcessingChannels::reset_cancel_channel
reset_cancel_channel(S) ==
  LET c == FreshChan(S) IN
  [S EXCEPT !.channels.cancel_rx = c, !.channels.cancel_tx = c,
            !.cancel_chan[c] = <<>>]

\* ---------------------------------------------------------------- App (UI)
\* Tab::all and Tab::for_cli
all_tabs ==
  << "Agents", "Commands", "Contexts", "Rules", "Skills", "Hooks",
     "OutputStyles", "Statusline", "Config", "McpServers", "Plugins" >>

for_cli(cli) ==
  IF cli = "Claude" THEN all_tabs ELSE << "Skills", "Config", "McpServers" >>

push(S, line) == [S EXCEPT !.app.processing_log = Append(@, line)]

\* App::close_processing
close_processing(S) ==
  [S EXCEPT !.app.current_view = "List",
            !.app.processing_queue = <<>>,
            !.app.processing_progress = None,
            !.app.processing_total = None,
            !.app.processing_log = <<>>,
            !.app.is_removing = FALSE,
            !.app.needs_refresh = FALSE,
            !.app.refreshing = FALSE,
            !.app.processing_complete = FALSE]

\* App::start_finish_processing
start_finish_processing(S) ==
  LET action == IF S.app.is_removing THEN "Removal" ELSE "Installation"
      S1 == push(S, <<"[OK]", action, "complete!">>)
      S2 == push(S1, <<>>)
      S3 == push(S2, <<"Refreshing status...">>)
  IN [S3 EXCEPT !.app.needs_refresh = TRUE]

\* An apply_refresh_result that forgets to mark the session complete.
apply_refresh_result_incomplete(S) ==
  LET S1 == push(S, <<"[OK] Status refresh complete!">>)
  IN [S1 EXCEPT !.app.needs_refresh = FALSE, !.app.refreshing = FALSE]

\* App::apply_refresh_result (the artifact lists themselves are not in the state)
apply_refresh_result(S) ==
  LET S1 == push(S, <<"[OK] Status refresh complete!">>)
  IN [S1 EXCEPT !.app.needs_refresh = FALSE,
                !.app.refreshing = FALSE,
                !.app.processing_complete = TRUE]

\* handle_installing_input without the cancelling latch: every Esc sends.
handle_installing_input_unlatched(S, key) ==
  IF key = "Esc" THEN
    IF S.channels.processing_active THEN
      LET S1 == cancel_send(S, S.channels.current_cancel_tx)
          S2 == push(S1, <<"[WARN] Cancelling current operation...">>)
      IN [S2 EXCEPT !.app.cancelling = TRUE]
    ELSE IF S.app.processing_complete THEN close_processing(S)
    ELSE S
  ELSE IF key \in {"q", "Enter"} THEN
    IF S.app.processing_complete THEN close_processing(S) ELSE S
  ELSE S

\* handle_installing_input whose q/Enter arm closes without looking at
\* processing_complete.
handle_installing_input_early_close(S, key) ==
  IF key = "Esc" THEN
    IF S.channels.processing_active /\ ~S.app.cancelling THEN
      LET S1 == cancel_send(S, S.channels.current_cancel_tx)
          S2 == push(S1, <<"[WARN] Cancelling current operation...">>)
      IN [S2 EXCEPT !.app.cancelling = TRUE]
    ELSE IF S.app.processing_complete THEN close_processing(S)
    ELSE S
  ELSE IF key \in {"q", "Enter"} THEN close_processing(S)
  ELSE S

\* handle_installing_input whose Esc arm does not look at processing_active.
handle_installing_input_ungated(S, key) ==
  IF key = "Esc" THEN
    IF ~S.app.cancelling /\ ~S.app.processing_complete THEN
      LET S1 == cancel_send(S, S.channels.current_cancel_tx)
          S2 == push(S1, <<"[WARN] Cancelling current operation...">>)
      IN [S2 EXCEPT !.app.cancelling = TRUE]
    ELSE IF S.app.processing_complete THEN close_processing(S)
    ELSE S
  ELSE IF key \in {"q", "Enter"} THEN
    IF S.app.processing_complete THEN close_processing(S) ELSE S
  ELSE S

\* handle_installing_input(app, key, &channels.current_cancel_tx,
\*                         &channels.processing_active)
handle_installing_input(S, key) ==
  IF key = "Esc" THEN
    IF S.channels.processing_active /\ ~S.app.cancelling THEN
      LET S1 == cancel_send(S, S.channels.current_cancel_tx)
          S2 == push(S1, <<"[WARN] Cancelling current operation...">>)
      IN [S2 EXCEPT !.app.cancelling = TRUE]
    ELSE IF S.app.processing_complete THEN close_processing(S)
    ELSE S
  ELSE IF key \in {"q", "Enter"} THEN
    IF S.app.processing_complete THEN close_processing(S) ELSE S
  ELSE S

\* An Err(e) arm that gives up the rest of the queue on every error.
log_process_error_clears(S, err_msg) ==
  [push(S, <<"[ERR]">> \o err_msg) EXCEPT !.app.processing_queue = <<>>]

\* The Err(e) arm of handle_process_completion: classification by e.to_string()
log_process_error(S, err_msg) ==
  IF contains(err_msg, "Cancelled by user") THEN
    LET S1 == push(S, <<"[WARN] Cancelled by user">>)
        S2 == IF ~S.app.is_removing
              THEN push(S1, <<"[INFO] Cleaning up cancelled installation...">>)
              ELSE S1
    IN [S2 EXCEPT !.app.processing_queue = <<>>]
  ELSE IF contains(err_msg, "timed out") THEN
    LET S1 == push(S, <<"[ERR]">> \o err_msg)
    IN IF ~S.app.is_removing
       THEN push(S1, <<"[INFO] Cleaning up timed out installation...">>)
       ELSE S1
  ELSE push(S, <<"[ERR]">> \o err_msg)

\* handle_process_completion whose Ok arm leaves app.cancelling as it was.
handle_process_completion_keeps_latch(S) ==
  LET r == process_try_recv(S) IN
  CASE r.tag = "Ok" ->
         LET S1 == [S EXCEPT !.process_chan = Tail(@),
                             !.threads[r.val.op] = NoThread,
                             !.channels.processing_active = FALSE]
             S2 == IF r.val.ok THEN push(S1, r.val.msg)
                   ELSE log_process_error(S1, r.val.msg)
             S3 == [S2 EXCEPT !.app.processing_progress =
                                 Some(unwrap_or(S2.app.processing_progress, 0) + 1)]
             S4 == reset_cancel_channel(S3)
         IN IF S4.app.processing_queue = <<>>
            THEN start_finish_processing(S4) ELSE S4
    [] r.tag = "Empty" -> S
    [] r.tag = "Disconnected" ->
         LET S1 == [S EXCEPT !.channels.processing_active = FALSE]
             S2 == push(S1, <<"[ERR] Process thread crashed">>)
         IN IF S2.app.processing_queue = <<>>
            THEN start_finish_processing(S2) ELSE S2

\* handle_process_completion
handle_process_completion(S) ==
  LET r == process_try_recv(S) IN
  CASE r.tag = "Ok" ->
         LET S1 == [S EXCEPT !.process_chan = Tail(@),
                             !.threads[r.val.op] = NoThread,
                             !.channels.processing_active = FALSE,
                             !.app.cancelling = FALSE]
             S2 == IF r.val.ok THEN push(S1, r.val.msg)
                   ELSE log_process_error(S1, r.val.msg)
             S3 == [S2 EXCEPT !.app.processing_progress =
                                 Some(unwrap_or(S2.app.processing_progress, 0) + 1)]
             S4 == reset_cancel_channel(S3)
         IN IF S4.app.processing_queue = <<>>
            THEN start_finish_processing(S4) ELSE S4
    [] r.tag = "Empty" -> S
    [] r.tag = "Disconnected" ->
         LET S1 == [S EXCEPT !.channels.processing_active = FALSE]
             S2 == push(S1, <<"[ERR] Process thread crashed">>)
         IN IF S2.app.processing_queue = <<>>
            THEN start_finish_processing(S2) ELSE S2

\* get_item_name
get_item_name(S, idx) == ItemName(idx)

\* A prepare_process_data that reads every index as a component.
prepare_process_data_component_only(S, idx) ==
  [ kind |-> "Component", idx |-> idx ]

\* prepare_process_data: the kind of ProcessData follows the active tab.
prepare_process_data(S, idx) ==
  [ kind |-> IF S.app.tab = "McpServers" THEN "McpServer"
             ELSE IF S.app.tab = "Plugins" THEN "Plugin"
             ELSE "Component",
    idx |-> idx ]

\* execute_process_step, on entry: the timeout it chooses and the first thing
\* the thread does for this kind of ProcessData.
execute_process_step(data, is_removing, cancel_rx) ==
  LET base == [NoThread EXCEPT !.kind = data.kind, !.idx = data.idx,
                               !.removing = is_removing, !.rx = cancel_rx]
  IN CASE data.kind = "McpServer" ->
            [base EXCEPT !.pc = "spawn", !.stage = "main",
                         !.has_cleanup = ~is_removing,
                         !.timeout = IF is_removing THEN McpRemoveTimeout
                                     ELSE McpInstallTimeout]
       [] data.kind = "Plugin" ->
            IF is_removing
            THEN [base EXCEPT !.pc = "spawn", !.stage = "main",
                              !.has_cleanup = FALSE,
                              !.timeout = PluginRemoveTimeout]
            ELSE [base EXCEPT !.pc = "list", !.timeout = PluginInstallTimeout]
       [] OTHER -> [base EXCEPT !.pc = "fs"]

\* dispatch_next_process that clones the sender after take_cancel_rx has
\* replaced the pair, so current_cancel_tx feeds the spare receiver.
dispatch_next_process_stale_tx(S) ==
  LET idx == Head(S.app.processing_queue)
      S1 == [S EXCEPT !.app.processing_queue = Tail(@),
                      !.channels.processing_active = TRUE]
      action == IF S.app.is_removing THEN "Removing" ELSE "Installing"
      S2 == push(S1, <<action, get_item_name(S1, idx), "...">>)
      data == prepare_process_data(S2, idx)
      t == take_cancel_rx(S2)
      S3 == [t.S EXCEPT !.channels.current_cancel_tx = t.S.channels.cancel_tx]
      op == S.op_seq + 1
  IN [S3 EXCEPT !.op_seq = op,
                !.threads[op] =
                   execute_process_step(data, S.app.is_removing, t.old_rx)]

\* dispatch_next_process
dispatch_next_process(S) ==
  LET idx == Head(S.app.processing_queue)
      S1 == [S EXCEPT !.app.processing_queue = Tail(@),
                      !.channels.processing_active = TRUE]
      action == IF S.app.is_removing THEN "Removing" ELSE "Installing"
      S2 == push(S1, <<action, get_item_name(S1, idx), "...">>)
      data == prepare_process_data(S2, idx)
      S3 == [S2 EXCEPT !.channels.current_cancel_tx = S2.channels.cancel_tx]
      t == take_cancel_rx(S3)
      op == S.op_seq + 1
  IN [t.S EXCEPT !.op_seq = op,
                 !.threads[op] =
                    execute_process_step(data, S.app.is_removing, t.old_rx)]

\* start_refresh_thread
start_refresh_thread(S) ==
  [S EXCEPT !.app.refreshing = TRUE, !.scan_thread = "running"]

\* A check_refresh_completion that reports completion while the scan is
\* still running.
check_refresh_completion_eager(S) ==
  LET r == refresh_try_recv(S) IN
  IF r.tag = "Ok" /\ r.val.ok
  THEN apply_refresh_result([S EXCEPT !.refresh_chan = Tail(@)])
  ELSE [S EXCEPT !.app.needs_refresh = FALSE,
                 !.app.refreshing = FALSE,
                 !.app.processing_complete = TRUE]

\* check_refresh_completion
check_refresh_completion(S) ==
  LET r == refresh_try_recv(S) IN
  CASE r.tag = "Ok" ->
         LET S1 == [S EXCEPT !.refresh_chan = Tail(@)] IN
         IF r.val.ok THEN apply_refresh_result(S1)
         ELSE LET S2 == push(S1, <<"[ERROR] Refresh failed:", r.val.msg>>)
              IN [S2 EXCEPT !.app.needs_refresh = FALSE,
                            !.app.refreshing = FALSE,
                            !.app.processing_complete = TRUE]
    [] r.tag = "Empty" -> S
    [] r.tag = "Disconnected" ->
         LET S2 == push(S, <<"[ERROR] Refresh thread crashed">>)
         IN [S2 EXCEPT !.app.needs_refresh = FALSE,
                       !.app.refreshing = FALSE,
                       !.app.processing_complete = TRUE]

\* The dispatch chain without the processing_active test on its first arm.
dispatch_or_refresh_ungated(S) ==
  IF S.app.processing_queue # <<>>
  THEN dispatch_next_process(S)
  ELSE IF /\ ~S.channels.processing_active
          /\ S.app.processing_queue = <<>>
          /\ S.app.needs_refresh
          /\ ~S.app.refreshing
  THEN start_refresh_thread(S)
  ELSE IF S.app.refreshing THEN check_refresh_completion(S)
  ELSE S

\* The dispatch chain at the end of handle_installing_view (main.rs 310-316).
dispatch_or_refresh(S) ==
  IF ~S.channels.processing_active /\ S.app.processing_queue # <<>>
  THEN dispatch_next_process(S)
  ELSE IF /\ ~S.channels.processing_active
          /\ S.app.processing_queue = <<>>
          /\ S.app.needs_refresh
          /\ ~S.app.refreshing
  THEN start_refresh_thread(S)
  ELSE IF S.app.refreshing THEN check_refresh_completion(S)
  ELSE S

\* handle_installing_view: one tick of the Installing view with the key that
\* poll() delivered ("None" when the poll interval passed without a key).
\* app.tick() only advances the spinner frame, which is not in the state.
handle_installing_view(S, key) ==
  LET S1 == handle_installing_input(S, key)
      S2 == IF S1.channels.processing_active
            THEN handle_process_completion(S1) ELSE S1
  IN dispatch_or_refresh(S2)

\* RECURSIVE helper: the indices of a selection in ascending order, as
\* iter().enumerate().filter(selected) yields them.
RECURSIVE selected_indices(_)
selected_indices(sel) ==
  IF sel = {} THEN <<>>
  ELSE LET m == CHOOSE x \in sel : \A y \in sel : x <= y
       IN <<m>> \o selected_indices(sel \ {m})

\* App::install_selected / App::remove_selected, for a selection sel of the
\* active tab whose servers have every required variable in the environment.
start_processing(S, sel, removing) ==
  LET indices == selected_indices(sel) IN
  IF indices = <<>> THEN S
  ELSE [S EXCEPT
          !.app.processing_queue = indices,
          !.app.processing_total = Some(Len(indices)),
          !.app.processing_progress = Some(0),
          !.app.processing_log =
             << << IF removing THEN "Starting removal of"
                   ELSE "Starting installation of",
                   ToString(Len(indices)), "items..." >> >>,
          !.app.is_removing = removing,
          !.app.cancelling = FALSE,
          !.app.current_view = "Installing"]

install_selected(S, sel) == start_processing(S, sel, FALSE)
remove_selected(S, sel) == start_processing(S, sel, TRUE)

\* App::set_tab
set_tab(S, idx) ==
  LET tabs == for_cli(unwrap_or(S.app.target_cli, "Claude")) IN
  IF idx + 1 <= Len(tabs) THEN [S EXCEPT !.app.tab = tabs[idx + 1]] ELSE S

\* App::select_cli followed by start_loading_thread (handle_cli_selection)
select_cli(S, cli) ==
  [S EXCEPT !.app.target_cli = Some(cli),
            !.app.tab = Head(for_cli(cli)),
            !.app.current_view = "Loading",
            !.scan_thread = "running"]

\* handle_loading_view
handle_loading_view(S, key) ==
  LET S1 == IF key = "q" THEN [S EXCEPT !.app.should_quit = TRUE] ELSE S
      r == refresh_try_recv(S1)
  IN CASE r.tag = "Ok" ->
            LET S2 == [S1 EXCEPT !.refresh_chan = Tail(@)] IN
            IF r.val.ok THEN [S2 EXCEPT !.app.current_view = "List"]
            ELSE [S2 EXCEPT !.app.current_view = "CliSelection"]
       [] r.tag = "Empty" -> S1
       [] r.tag = "Disconnected" ->
            [S1 EXCEPT !.app.current_view = "CliSelection"]

\* ------------------------------------------------ Cancellable Process Runner
\* spawn_cancelable_process runs in the execution thread; th is its record.
\*   pc "spawn"    : about to spawn the child (process.rs 127-131)
\*   pc "deadline" : top of the loop, the elapsed-time check (163)
\*   pc "wait"     : child.wait_timeout(POLL_INTERVAL_MS) (176)
\*   pc "cancel"   : config.cancel_rx.try_recv() (193)
\* child: "running", "zombie" (terminated, not yet waited on), "reaped".
InLoop(th) == th.pc \in {"deadline", "wait", "cancel"}

\* config.action and config.item_name of the current runner invocation
runner_action(th) ==
  IF th.kind = "McpServer"
  THEN (IF th.removing THEN "remove MCP server" ELSE "install MCP server")
  ELSE IF th.stage = "add" THEN "add marketplace"
  ELSE (IF th.removing THEN "remove plugin" ELSE "install plugin")

runner_item_name(th) ==
  IF th.stage = "add" THEN "marketplace" \o ToString(th.idx) ELSE ItemName(th.idx)

\* A kill that does nothing.
child_kill_noop(th) == th

\* Child::kill: SIGKILL ends a running child; it stays a zombie until waited on.
child_kill(th) ==
  IF th.child = "running"
  THEN [th EXCEPT !.child = "zombie", !.killed = TRUE]
  ELSE th

\* wait_timeout on a child that has terminated collects (reaps) it.
child_reap(th) ==
  IF th.child = "zombie" THEN [th EXCEPT !.child = "reaped"] ELSE th

\* kill_and_cleanup(child, cleanup); ret is what the cleanup closure returns.
kill_and_cleanup(th, ret) ==
  LET th1 == child_reap(child_kill(th)) IN
  IF th.has_cleanup
  THEN [th1 EXCEPT !.cleanup_calls = @ + 1, !.cleanup_ok = ret]
  ELSE th1

\* A wait-error arm that goes through kill_and_cleanup like the other two.
wait_error_with_cleanup(th) ==
  [kill_and_cleanup(th, TRUE) EXCEPT !.wait_failed = TRUE]

\* The error arm of the wait (process.rs 187-190): kill, then bail.
wait_error(th) == [child_kill(th) EXCEPT !.wait_failed = TRUE]

\* The runner returns res (outcome names its kind) to its caller.  After a
\* successful "add marketplace" runner install_plugin goes on to the install
\* runner with the same cancel_rx and the same timeout_secs; otherwise
\* execute_process_step maps the result and the thread sends it.
runner_return(S, o, th, outcome, res) ==
  IF th.stage = "add" /\ res.ok
  THEN [S EXCEPT !.threads[o] =
          [th EXCEPT !.pc = "spawn", !.stage = "main", !.has_cleanup = TRUE,
                     !.child = "none", !.status = 0, !.stderr = <<>>,
                     !.elapsed = 0, !.killed = FALSE, !.exited = FALSE,
                     !.exited_early = FALSE,
                     !.late_cancel = FALSE,
                     !.cancel_sends = Len(S.cancel_chan[th.rx])]]
  ELSE LET result ==
             IF res.ok
             THEN [ok |-> TRUE,
                   msg |-> << IF th.removing THEN "[OK] Removed"
                              ELSE "[OK] Installed", ItemName(th.idx) >>]
             ELSE res
       IN [S EXCEPT
             !.threads[o] = [th EXCEPT !.pc = "done", !.outcome = outcome,
                                       !.result = result],
             !.process_chan = Append(@, [ok |-> result.ok, msg |-> result.msg,
                                         op |-> o, outcome |-> outcome])]

Ok == [ok |-> TRUE, msg |-> <<>>]
Err(m) == [ok |-> FALSE, msg |-> m]

\* The deadline check at the top of the loop (process.rs 163-171).
runner_deadline(S, o, ret) ==
  LET th == S.threads[o] IN
  IF th.elapsed >= th.timeout
  THEN runner_return(S, o, kill_and_cleanup(th, ret), "TimedOut",
                     Err(TimedOutMsg(th.has_cleanup, th.timeout)))
  ELSE [S EXCEPT !.threads[o].pc = "wait"]

\* child.wait_timeout(POLL_INTERVAL_MS) and its three arms (process.rs 176-191);
\* failed says whether the wait syscall failed.
runner_wait(S, o, failed) ==
  LET th == S.threads[o] IN
  IF failed
  THEN runner_return(S, o, wait_error(th), "SysErr", Err(SysErrMsg))
  ELSE IF th.child = "zombie"
  THEN IF th.status # 0
       THEN runner_return(S, o, child_reap(th), "Failure",
               Err(format_process_error(runner_action(th), runner_item_name(th),
                                        th.stderr)))
       ELSE runner_return(S, o, child_reap(th), "Success", Ok)
  ELSE [S EXCEPT !.threads[o].pc = "cancel"]

\* config.cancel_rx.try_recv() and its arms (process.rs 193-204).
runner_cancel(S, o, ret) ==
  LET th == S.threads[o] IN
  IF S.cancel_chan[th.rx] # <<>>
  THEN LET sig == Head(S.cancel_chan[th.rx])
           S1 == [S EXCEPT !.cancel_chan[th.rx] = Tail(@)]
           th1 == [kill_and_cleanup(th, ret) EXCEPT !.got_signal = sig.op]
       IN runner_return(S1, o, th1, "Cancelled", Err(CancelledMsg(th.has_cleanup)))
  ELSE [S EXCEPT !.threads[o].pc = "deadline"]

\* ------------------------------------------------------- tree view (tree.rs)
\* A component name is a sequence of tokens; "/" and "\\" are its separators.
IsSep(tok) == tok \in {"/", "\\"}

\* str::split(['/', '\\']): the parts between separators (a part is a token
\* sequence; it is empty between two adjacent separators).
RECURSIVE split(_)
split(s) ==
  IF s = <<>> THEN << <<>> >>
  ELSE LET rest == split(Tail(s)) IN
       IF IsSep(Head(s)) THEN << <<>> >> \o rest
       ELSE << <<Head(s)>> \o Head(rest) >> \o Tail(rest)

\* [String]::join("/")
RECURSIVE join(_)
join(parts) ==
  IF parts = <<>> THEN <<>>
  ELSE IF Len(parts) = 1 THEN parts[1]
  ELSE parts[1] \o <<"/">> \o join(Tail(parts))

\* Names of the components of one tab, as the scanner may list them.
NamePool ==
  { <<"file1.md">>,
    <<"folder", "/", "file2.md">>,
    <<"folder", "/", "sub", "/", "file3.md">>,
    <<"folder", "\\", "sub", "/", "file4.md">>,
    <<"rules", "/", "perf.md">> }

\* TreeNode::File and TreeNode::Folder (indices are 0-based as in the code;
\* node i of a tree t is t.nodes[i + 1]).
FileNode(component_idx, depth, parent_idx) ==
  [ is_folder |-> FALSE, name |-> <<>>, path |-> <<>>, expanded |-> FALSE,
    children |-> <<>>, depth |-> depth, parent_idx |-> parent_idx,
    component_idx |-> component_idx ]

FolderNode(name, path, depth, parent_idx) ==
  [ is_folder |-> TRUE, name |-> name, path |-> path, expanded |-> TRUE,
    children |-> <<>>, depth |-> depth, parent_idx |-> parent_idx,
    component_idx |-> 0 ]

\* TreeView::default
DefaultTree ==
  [ nodes |-> <<>>, visible_indices |-> <<>>, cursor |-> 0,
    root_children |-> <<>> ]

\* A folder_map lookup that never finds the folder.
folder_map_get_miss(folder_map, path) == None

\* HashMap<String, usize>::get on folder_map (a set of [path, idx] entries)
folder_map_get(folder_map, path) ==
  IF \E e \in folder_map : e.path = path
  THEN Some((CHOOSE e \in folder_map : e.path = path).idx)
  ELSE None

\* Push node_idx onto the root or onto the children of the parent folder.
attach(t, node_idx, depth, parent_idx) ==
  IF depth = 0
  THEN [t EXCEPT !.root_children = Append(@, node_idx)]
  ELSE IF parent_idx # None /\ t.nodes[parent_idx[1] + 1].is_folder
  THEN [t EXCEPT !.nodes[parent_idx[1] + 1].children = Append(@, node_idx)]
  ELSE t

\* TreeView::insert_path; the result is the tree and the folder map.
RECURSIVE insert_path(_, _, _, _, _, _)
insert_path(t, folder_map, parts, comp_idx, depth, current_path) ==
  IF parts = <<>> THEN [t |-> t, folder_map |-> folder_map]
  ELSE IF Len(parts) = 1 THEN
    LET parent_idx == IF depth = 0 THEN None
                      ELSE folder_map_get(folder_map, join(current_path))
        node_idx == Len(t.nodes)
        t1 == [t EXCEPT !.nodes = Append(@, FileNode(comp_idx, depth, parent_idx))]
    IN [t |-> attach(t1, node_idx, depth, parent_idx), folder_map |-> folder_map]
  ELSE
    LET folder_name == parts[1]
        path1 == Append(current_path, folder_name)
        folder_path == join(path1)
        known == folder_map_get(folder_map, folder_path)
        parent_idx == IF depth = 0 THEN None
                      ELSE folder_map_get(folder_map, join(current_path))
        idx == Len(t.nodes)
        t1 == [t EXCEPT !.nodes =
                 Append(@, FolderNode(folder_name, folder_path, depth, parent_idx))]
        made == IF known # None
                THEN [t |-> t, folder_map |-> folder_map]
                ELSE [t |-> attach(t1, idx, depth, parent_idx),
                      folder_map |-> folder_map \cup
                                       {[path |-> folder_path, idx |-> idx]}]
    IN insert_path(made.t, made.folder_map, Tail(parts), comp_idx, depth + 1, path1)

\* TreeView::add_visible_recursive, as the indices it pushes.
RECURSIVE add_visible_recursive(_, _)
RECURSIVE add_visible_children(_, _)
add_visible_recursive(t, node_idx) ==
  LET n == t.nodes[node_idx + 1] IN
  <<node_idx>> \o (IF n.is_folder /\ n.expanded
                   THEN add_visible_children(t, n.children) ELSE <<>>)

add_visible_children(t, child_indices) ==
  IF child_indices = <<>> THEN <<>>
  ELSE add_visible_recursive(t, Head(child_indices))
         \o add_visible_children(t, Tail(child_indices))

\* TreeView::rebuild_visible
rebuild_visible(t) ==
  LET visible == add_visible_children(t, t.root_children) IN
  [t EXCEPT !.visible_indices = visible,
            !.cursor = IF visible # <<>> /\ t.cursor >= Len(visible)
                       THEN Len(visible) - 1 ELSE t.cursor]

\* The loop of build_from_components over filtered_indices, from position i.
RECURSIVE insert_all(_, _, _, _)
insert_all(t, folder_map, names, i) ==
  IF i > Len(names) THEN t
  ELSE LET r == insert_path(t, folder_map, split(names[i]), i - 1, 0, <<>>)
       IN insert_all(r.t, r.folder_map, names, i + 1)

\* TreeView::build_from_components (sort_children changes nothing)
build_from_components(names) ==
  IF names = <<>> THEN DefaultTree
  ELSE rebuild_visible(insert_all(DefaultTree, {}, names, 1))

\* TreeView::current_node_idx
current_node_idx(t) ==
  IF t.cursor < Len(t.visible_indices)
  THEN Some(t.visible_indices[t.cursor + 1]) ELSE None

\* TreeView::is_on_folder
is_on_folder(t) ==
  current_node_idx(t) # None /\ t.nodes[current_node_idx(t)[1] + 1].is_folder

\* A toggle_expand that flips the flag and leaves visible_indices as it was.
toggle_expand_without_rebuild(t) ==
  IF is_on_folder(t)
  THEN [t EXCEPT !.nodes[current_node_idx(t)[1] + 1].expanded = ~@]
  ELSE t

\* TreeView::toggle_expand
toggle_expand(t) ==
  IF is_on_folder(t)
  THEN rebuild_visible(
         [t EXCEPT !.nodes[current_node_idx(t)[1] + 1].expanded = ~@])
  ELSE t

\* TreeView::expand
expand(t) ==
  IF is_on_folder(t) /\ ~t.nodes[current_node_idx(t)[1] + 1].expanded
  THEN rebuild_visible(
         [t EXCEPT !.nodes[current_node_idx(t)[1] + 1].expanded = TRUE])
  ELSE t

\* A collapse that clears the flag and leaves visible_indices as it was.
collapse_without_rebuild(t) ==
  IF is_on_folder(t) /\ t.nodes[current_node_idx(t)[1] + 1].expanded
  THEN [t EXCEPT !.nodes[current_node_idx(t)[1] + 1].expanded = FALSE]
  ELSE t

\* TreeView::collapse
collapse(t) ==
  IF is_on_folder(t) /\ t.nodes[current_node_idx(t)[1] + 1].expanded
  THEN rebuild_visible(
         [t EXCEPT !.nodes[current_node_idx(t)[1] + 1].expanded = FALSE])
  ELSE t

\* Iterator::position
RECURSIVE position(_, _)
position(s, x) ==
  IF s = <<>> THEN None
  ELSE IF Head(s) = x THEN Some(0)
  ELSE LET r == position(Tail(s), x) IN
       IF r = None THEN None ELSE Some(r[1] + 1)

\* A collapse_parent that collapses the parent and leaves the cursor's row
\* number as it was.
collapse_parent_cursor_kept(t) ==
  IF current_node_idx(t) = None THEN t
  ELSE
    LET parent_idx == t.nodes[current_node_idx(t)[1] + 1].parent_idx IN
    IF parent_idx = None THEN t
    ELSE LET p == t.nodes[parent_idx[1] + 1] IN
         IF p.is_folder /\ p.expanded
         THEN rebuild_visible([t EXCEPT !.nodes[parent_idx[1] + 1].expanded = FALSE])
         ELSE t

\* A collapse_parent that sends the cursor to the top when the node under
\* it has no parent to collapse.
collapse_parent_to_top(t) ==
  IF current_node_idx(t) = None THEN t
  ELSE
    LET parent_idx == t.nodes[current_node_idx(t)[1] + 1].parent_idx IN
    IF parent_idx = None THEN [t EXCEPT !.cursor = 0]
    ELSE LET p == t.nodes[parent_idx[1] + 1] IN
         IF p.is_folder /\ p.expanded
         THEN LET t1 == rebuild_visible(
                          [t EXCEPT !.nodes[parent_idx[1] + 1].expanded = FALSE])
                  new_pos == position(t1.visible_indices, parent_idx[1])
              IN IF new_pos # None THEN [t1 EXCEPT !.cursor = new_pos[1]] ELSE t1
         ELSE t

\* TreeView::collapse_parent
collapse_parent(t) ==
  IF current_node_idx(t) = None THEN t
  ELSE
    LET parent_idx == t.nodes[current_node_idx(t)[1] + 1].parent_idx IN
    IF parent_idx = None THEN t
    ELSE LET p == t.nodes[parent_idx[1] + 1] IN
         IF p.is_folder /\ p.expanded
         THEN LET t1 == rebuild_visible(
                          [t EXCEPT !.nodes[parent_idx[1] + 1].expanded = FALSE])
                  new_pos == position(t1.visible_indices, parent_idx[1])
              IN IF new_pos # None THEN [t1 EXCEPT !.cursor = new_pos[1]] ELSE t1
         ELSE t

\* A next that stops at the last row.
next_saturating(t) ==
  IF t.visible_indices # <<>> /\ t.cursor + 1 < Len(t.visible_indices)
  THEN [t EXCEPT !.cursor = t.cursor + 1]
  ELSE t

\* TreeView::next
next(t) ==
  IF t.visible_indices # <<>>
  THEN [t EXCEPT !.cursor = (t.cursor + 1) % Len(t.visible_indices)]
  ELSE t

\* TreeView::prev
prev(t) ==
  IF t.visible_indices # <<>>
  THEN [t EXCEPT !.cursor = IF t.cursor = 0 THEN Len(t.visible_indices) - 1
                            ELSE t.cursor - 1]
  ELSE t

\* TreeView::collect_component_indices, as the indices it pushes.
RECURSIVE collect_component_indices(_, _)
RECURSIVE collect_children(_, _)
collect_component_indices(t, node_idx) ==
  LET n == t.nodes[node_idx + 1] IN
  IF n.is_folder THEN collect_children(t, n.children)
  ELSE <<n.component_idx>>

collect_children(t, child_indices) ==
  IF child_indices = <<>> THEN <<>>
  ELSE collect_component_indices(t, Head(child_indices))
         \o collect_children(t, Tail(child_indices))

\* TreeView::get_folder_component_indices
get_folder_component_indices(t, folder_idx) ==
  collect_component_indices(t, folder_idx)

SeqRange(s) == {s[i] : i \in 1 .. Len(s)}

\* A folder toggle that negates each leaf on its own.
toggle_folder_selection_per_leaf(t, comps) ==
  IF current_node_idx(t) = None THEN comps
  ELSE
    LET indices == get_folder_component_indices(t, current_node_idx(t)[1])
    IN [i \in 1 .. Len(comps) |->
          IF (i - 1) \in SeqRange(indices)
          THEN [comps[i] EXCEPT !.selected = ~@] ELSE comps[i]]

\* App::toggle_folder_selection on the tree of the active tab; comps is
\* App.components (component idx i is comps[i + 1]).
toggle_folder_selection(t, comps) ==
  IF current_node_idx(t) = None THEN comps
  ELSE
    LET indices == get_folder_component_indices(t, current_node_idx(t)[1])
        all_selected == \A i \in 1 .. Len(indices) :
                          indices[i] < Len(comps) /\ comps[indices[i] + 1].selected
        new_state == ~all_selected
    IN IF indices = <<>> THEN comps
       ELSE [i \in 1 .. Len(comps) |->
               IF (i - 1) \in SeqRange(indices)
               THEN [comps[i] EXCEPT !.selected = new_state] ELSE comps[i]]

\* App::toggle_selected on a component tab
toggle_selected(t, comps) ==
  IF is_on_folder(t) THEN toggle_folder_selection(t, comps)
  ELSE IF current_node_idx(t) # None
  THEN LET idx == t.nodes[current_node_idx(t)[1] + 1].component_idx IN
       IF idx < Len(comps)
       THEN [comps EXCEPT ![idx + 1].selected = ~@] ELSE comps
  ELSE comps

\* ------------------------------------------------------------------ inputs
\* Key '1' chooses Claude, whose tabs include every kind of artifact.
CliKeys == {"1", "q"}
LoadingKeys == {"None", "q"}
InstallingKeys == {"None", "Esc", "q", "Enter"}
\* Keys '1', '0' and '-' of the List view, as set_tab's argument: a component
\* tab, the MCP tab and the Plugins tab.
TabKeys == {0, 9, 10}
ExitInputs ==
  {[status |-> 0, stderr |-> <<>>]}
    \cup {[status |-> 1, stderr |-> t] : t \in StderrTexts}

Running == ~app.should_quit

\* ------------------------------------------------------- UI thread (run_app)
\* View::CliSelection: handle_cli_selection
CliSelectionKey(key) ==
  /\ Running /\ app.current_view = "CliSelection"
  /\ Becomes(IF key = "1" THEN select_cli(State, "Claude")
             ELSE IF key = "2" THEN select_cli(State, "Codex")
             ELSE [State EXCEPT !.app.should_quit = TRUE])

\* View::Loading: handle_loading_view
LoadingTick(key) ==
  /\ Running /\ app.current_view = "Loading"
  /\ Becomes(handle_loading_view(State, key))

\* View::List: handle_list_input, the keys the execution core depends on
ListQuit ==
  /\ Running /\ app.current_view = "List"
  /\ Becomes([State EXCEPT !.app.should_quit = TRUE])

ListSetTab(idx) ==
  /\ Running /\ app.current_view = "List"
  /\ Becomes(set_tab(State, idx))

\* 'i' and 'r' with sel the selected items of the active tab; any selection
\* can be set up with toggle_selected beforehand.
ListInstall(sel) ==
  /\ Running /\ app.current_view = "List"
  /\ op_seq + Cardinality(sel) <= MaxOps
  /\ Becomes(install_selected(State, sel))

ListRemove(sel) ==
  /\ Running /\ app.current_view = "List"
  /\ op_seq + Cardinality(sel) <= MaxOps
  /\ Becomes(remove_selected(State, sel))

\* View::Installing: handle_installing_view
InstallingTick(key) ==
  /\ Running /\ app.current_view = "Installing"
  /\ Becomes(handle_installing_view(State, key))

\* ------------------------------------------------- background scan thread
\* start_loading_thread / start_refresh_thread: the scan ends and sends.
ScanFinish(ok) ==
  /\ Running /\ scan_thread = "running"
  /\ scan_thread' = "none"
  /\ refresh_chan' = Append(refresh_chan, [ok |-> ok, msg |-> "scan error"])
  /\ UNCHANGED side_vars
  /\ UNCHANGED <<app, channels, cancel_chan, process_chan, threads, op_seq>>

\* The scan thread panics inside a scanner and ends without sending; its
\* tx_clone is dropped.
ScanCrash ==
  /\ Running /\ scan_thread = "running"
  /\ scan_thread' = "crashed"
  /\ UNCHANGED side_vars
  /\ UNCHANGED <<app, channels, cancel_chan, process_chan, refresh_chan,
                 threads, op_seq>>

\* ------------------------------------------------------ execution thread o
\* ProcessData::Component: install_component / remove_component; a filesystem
\* error is returned as Ok("[ERR] name: e").
ThreadFs(o, ok) ==
  /\ Running /\ threads[o].pc = "fs"
  /\ LET th == threads[o]
         msg == IF ok
                THEN << IF th.removing THEN "[OK] Removed" ELSE "[OK] Installed",
                        ItemName(th.idx) >>
                ELSE << "[ERR]", ItemName(th.idx), ":", "Permission denied" >>
         outcome == IF ok THEN "FsOk" ELSE "FsErr"
     IN /\ threads' = [threads EXCEPT ![o] =
                          [th EXCEPT !.pc = "done", !.outcome = outcome,
                                     !.result = [ok |-> TRUE, msg |-> msg]]]
        /\ process_chan' = Append(process_chan,
              [ok |-> TRUE, msg |-> msg, op |-> o, outcome |-> outcome])
  /\ UNCHANGED side_vars
  /\ UNCHANGED <<app, channels, cancel_chan, refresh_chan, scan_thread, op_seq>>

\* ensure_marketplace_added, step 1: the quick marketplace list check.
ThreadMarketplaceList(o, found) ==
  /\ Running /\ threads[o].pc = "list"
  /\ threads' = [threads EXCEPT ![o] =
        [@ EXCEPT !.pc = "spawn",
                  !.stage = IF found THEN "main" ELSE "add",
                  !.has_cleanup = found]]
  /\ UNCHANGED side_vars
  /\ UNCHANGED <<app, channels, cancel_chan, process_chan, refresh_chan,
                 scan_thread, op_seq>>

\* command.spawn()?: the child starts, or the runner returns the io error.
ThreadSpawn(o, ok) ==
  /\ Running /\ threads[o].pc = "spawn"
  /\ IF ok
     THEN Becomes([State EXCEPT !.threads[o] =
                     [@ EXCEPT !.pc = "deadline", !.child = "running",
                               !.elapsed = 0]])
     ELSE Becomes(runner_return(State, o, threads[o], "SpawnErr", Err(SpawnErrMsg)))

\* The thread panics after the child was spawned (thread::spawn of the reader
\* threads fails): it ends without sending; tx_clone and cancel_rx are dropped.
ThreadCrash(o) ==
  /\ Running /\ threads[o].pc = "spawn"
  /\ threads' = [threads EXCEPT ![o] =
        [@ EXCEPT !.pc = "crashed", !.child = "running"]]
  /\ UNCHANGED side_vars
  /\ UNCHANGED <<app, channels, cancel_chan, process_chan, refresh_chan,
                 scan_thread, op_seq>>

RunnerDeadline(o, ret) ==
  /\ Running /\ threads[o].pc = "deadline"
  /\ Becomes(runner_deadline(State, o, ret))

RunnerWait(o, failed) ==
  /\ Running /\ threads[o].pc = "wait"
  /\ Becomes(runner_wait(State, o, failed))

RunnerCancel(o, ret) ==
  /\ Running /\ threads[o].pc = "cancel"
  /\ Becomes(runner_cancel(State, o, ret))

\* ------------------------------------------------------------- environment
\* The child of thread o exits on its own.
\* exited_early records an exit with status zero while less than the timeout
\* had elapsed.
ChildExit(o, e) ==
  /\ Running /\ InLoop(threads[o]) /\ threads[o].child = "running"
  /\ threads' = [threads EXCEPT ![o] =
        [@ EXCEPT !.child = "zombie", !.exited = TRUE,
                  !.exited_early = (e.status = 0
                       /\ threads[o].elapsed < threads[o].timeout),
                  !.status = e.status, !.stderr = e.stderr]]
  /\ UNCHANGED side_vars
  /\ UNCHANGED <<app, channels, cancel_chan, process_chan, refresh_chan,
                 scan_thread, op_seq>>

\* The wall clock advances while a runner is in its loop.
TimePasses(o) ==
  /\ Running /\ InLoop(threads[o]) /\ threads[o].elapsed < threads[o].timeout
  /\ threads' = [threads EXCEPT ![o].elapsed = @ + ClockStep]
  /\ UNCHANGED side_vars
  /\ UNCHANGED <<app, channels, cancel_chan, process_chan, refresh_chan,
                 scan_thread, op_seq>>

\* ------------------------------- catalog scan (fs/scanner) and secret prompt
\* Strings of this section are sequences of characters.
starts_with(s, prefix) ==
  Len(s) >= Len(prefix) /\ SubSeq(s, 1, Len(prefix)) = prefix

\* char::is_ascii_alphanumeric, over the characters that occur
is_ascii_alphanumeric(c) == c \in {"a", "b", "h", "p", "s", "t", "x", "7"}

MaxIdentifierLen == 100

\* validation::is_safe_identifier
is_safe_identifier(s) ==
  /\ s # <<>>
  /\ Len(s) <= MaxIdentifierLen
  /\ ~starts_with(s, <<"-">>)
  /\ \A i \in 1 .. Len(s) :
       is_ascii_alphanumeric(s[i]) \/ s[i] = "_" \/ s[i] = "-"

\* validation::is_https_url
is_https_url(s) ==
  starts_with(s, <<"h", "t", "t", "p", "s", ":", "/", "/">>) /\ Len(s) > 8

\* An is_safe_command that only rejects the empty command.
is_safe_command_nonempty(s) == s # <<>>

\* validation::is_safe_command ("backtick" stands for the grave accent)
is_safe_command(s) ==
  /\ s # <<>>
  /\ ~\E i \in 1 .. Len(s) :
        s[i] \in {"&", "|", ">", "<", ";", "backtick", "$", "(", ")"}

\* validation::validate_mcp_server: Some(which check failed) or None
validate_mcp_server(server) ==
  IF ~is_safe_identifier(server.name) THEN Some("name")
  ELSE IF server.url # None /\ ~is_https_url(server.url[1]) THEN Some("url")
  ELSE IF server.command # None /\ ~is_safe_command(server.command[1])
       THEN Some("command")
  ELSE None

\* validation::validate_plugin
validate_plugin(name, marketplace, source) ==
  IF ~is_safe_identifier(name) THEN Some("name")
  ELSE IF ~is_safe_identifier(marketplace) THEN Some("marketplace")
  ELSE IF ~is_https_url(source) THEN Some("source")
  ELSE None

\* scanner::scan_mcp_servers: filter_map over catalog.servers
RECURSIVE scan_mcp_servers(_, _)
scan_mcp_servers(servers, installed) ==
  IF servers = <<>> THEN <<>>
  ELSE LET def == Head(servers) IN
       (IF validate_mcp_server(def) # None THEN <<>>
        ELSE << [def |-> def, selected |-> FALSE,
                 status |-> IF def.name \in installed THEN "Installed"
                            ELSE "NotInstalled"] >>)
         \o scan_mcp_servers(Tail(servers), installed)

\* scanner::scan_plugins: the loop over the parsed catalog
RECURSIVE scan_plugins(_, _)
scan_plugins(catalog, installed) ==
  IF catalog = <<>> THEN <<>>
  ELSE LET e == Head(catalog) IN
       (IF validate_plugin(e.name, e.marketplace, e.source) # None THEN <<>>
        ELSE << [def |-> e, selected |-> FALSE,
                 status |-> IF e.name \in installed THEN "Installed"
                            ELSE "NotInstalled"] >>)
         \o scan_plugins(Tail(catalog), installed)

\* ---- catalog entries the scans are run on
Str_a == <<"a">>
Str_b == <<"b">>
HttpsUrl == <<"h", "t", "t", "p", "s", ":", "/", "/", "x">>
HttpUrl == <<"h", "t", "t", "p", ":", "/", "/", "x">>
BareHttps == <<"h", "t", "t", "p", "s", ":", "/", "/">>
SafeCmd == <<"x", " ", "-", "b">>

McpDef(name, command, url, env) ==
  [name |-> name, command |-> command, url |-> url, env |-> env]

\* mcps.yaml entries: sound ones with and without required variables, and one
\* entry per way of failing validation.
McpPool ==
  << McpDef(Str_a, Some(SafeCmd), None, <<"K1">>),
     McpDef(Str_b, Some(SafeCmd), None, <<"K1", "K2">>),
     McpDef(<<"s", "7">>, None, Some(HttpsUrl), <<>>),
     McpDef(<<"x", ";">>, Some(SafeCmd), None, <<>>),
     McpDef(<<"-", "x">>, Some(SafeCmd), None, <<>>),
     McpDef(<<>>, Some(SafeCmd), None, <<>>),
     McpDef(<<"a", " ", "b">>, Some(SafeCmd), None, <<>>),
     McpDef([i \in 1 .. MaxIdentifierLen + 1 |-> "a"], Some(SafeCmd), None, <<>>),
     McpDef(<<"h">>, None, Some(HttpUrl), <<>>),
     McpDef(<<"t">>, None, Some(BareHttps), <<>>),
     McpDef(<<"p">>, Some(<<>>), None, <<>>),
     McpDef(<<"p">>, Some(<<"x", " ", "&", " ", "b">>), None, <<>>),
     McpDef(<<"p">>, Some(<<"x", "|", "b">>), None, <<>>),
     McpDef(<<"p">>, Some(<<"x", ">", "b">>), None, <<>>),
     McpDef(<<"p">>, Some(<<"x", "<", "b">>), None, <<>>),
     McpDef(<<"p">>, Some(<<"x", ";", " ", "b">>), None, <<>>),
     McpDef(<<"p">>, Some(<<"backtick", "x", "backtick">>), None, <<>>),
     McpDef(<<"p">>, Some(<<"$", "x">>), None, <<>>),
     McpDef(<<"p">>, Some(<<"x", "(", "b">>), None, <<>>),
     McpDef(<<"p">>, Some(<<"x", ")", "b">>), None, <<>>) >>

PluginEntry(marketplace, source, name) ==
  [marketplace |-> marketplace, source |-> source, name |-> name]

\* plugins.yaml entries as parse_plugins_yaml returns them
PluginPool ==
  << PluginEntry(<<"s">>, HttpsUrl, Str_a),
     PluginEntry(<<"s">>, HttpsUrl, <<"a", "$">>),
     PluginEntry(<<"s", "/", "x">>, HttpsUrl, Str_a),
     PluginEntry(<<"s">>, HttpUrl, Str_a),
     PluginEntry(<<"s">>, BareHttps, Str_b) >>

\* Sub-sequences of pool (entries in pool order) of length at most n.
RECURSIVE Picks(_, _)
Picks(pool, n) ==
  IF pool = <<>> \/ n = 0 THEN {<<>>}
  ELSE {<<Head(pool)>> \o r : r \in Picks(Tail(pool), n - 1)}
         \cup Picks(Tail(pool), n)

\* Names of the variables the environment may hold.
EnvNames == {"K1", "K2"}

\* std::env::current_dir() as App::new reads it.
Cwd == <<"c">>

\* The tabs whose rows are not components.
IsListTab(t) == t \in {"McpServers", "Plugins"}

\* The components the scanner finds for n files in the source directory.
scan_components(n) == [i \in 1 .. n |-> [selected |-> FALSE]]

\* ---- App: the MCP / plugin lists and the secret prompt
\* App::new, with the catalogs found on disk and the process environment
CatNew(mcp_catalog, plugin_catalog, environ) ==
  [ mcp_catalog |-> mcp_catalog, plugin_catalog |-> plugin_catalog,
    environ |-> environ,
    current_view |-> "Loading", tab |-> "McpServers",
    mcp_servers |-> <<>>, plugins |-> <<>>,
    processing_queue |-> <<>>, is_removing |-> FALSE,
    env_input_server_idx |-> None, env_input_vars |-> <<>>,
    env_input_current |-> 0, env_input_buffer |-> <<>>,
    env_input_values |-> <<>>,
    process_data |-> None,
    target_cli |-> None, source_components |-> 0, components |-> <<>>,
    diff_content |-> None, mcp_scope |-> "User",
    mcp_project_path |-> Cwd, project_path_buffer |-> Cwd ]

\* App::finish_loading with the lists the loading thread scanned
finish_loading(a) ==
  [a EXCEPT !.components = scan_components(a.source_components),
            !.mcp_servers = scan_mcp_servers(a.mcp_catalog, {}),
            !.plugins = scan_plugins(a.plugin_catalog, {}),
            !.current_view = "List"]

\* App::toggle_selected, cursor on row idx (on a component tab: a file row)
toggle_list_selected(a, idx) ==
  IF a.tab = "McpServers"
  THEN IF idx < Len(a.mcp_servers)
       THEN [a EXCEPT !.mcp_servers[idx + 1].selected = ~@] ELSE a
  ELSE IF a.tab = "Plugins"
  THEN IF idx < Len(a.plugins)
       THEN [a EXCEPT !.plugins[idx + 1].selected = ~@] ELSE a
  ELSE IF idx < Len(a.components)
       THEN [a EXCEPT !.components[idx + 1].selected = ~@] ELSE a

\* indices of the selected rows of the active tab (0-based)
RECURSIVE selected_rows(_, _)
selected_rows(list, i) ==
  IF i >= Len(list) THEN <<>>
  ELSE (IF list[i + 1].selected THEN <<i>> ELSE <<>>) \o selected_rows(list, i + 1)

queue_indices(a) ==
  selected_rows(IF a.tab = "McpServers" THEN a.mcp_servers
                ELSE IF a.tab = "Plugins" THEN a.plugins
                ELSE a.components, 0)

\* server.def.env filtered by std::env::var(e).is_err()
RECURSIVE missing_vars(_, _)
missing_vars(env, environ) ==
  IF env = <<>> THEN <<>>
  ELSE (IF Head(env) \in environ THEN <<>> ELSE <<Head(env)>>)
         \o missing_vars(Tail(env), environ)

\* App::start_env_input
start_env_input(a, server_idx, missing) ==
  [a EXCEPT !.env_input_server_idx = Some(server_idx),
            !.env_input_vars = missing,
            !.env_input_current = 0,
            !.env_input_buffer = <<>>,
            !.env_input_values = <<>>,
            !.current_view = "EnvInput"]

\* the loop of install_selected over the queued servers: the first server
\* with a missing variable, if any
RECURSIVE first_missing(_, _)
first_missing(a, indices) ==
  IF indices = <<>> THEN None
  ELSE IF missing_vars(a.mcp_servers[Head(indices) + 1].def.env, a.environ) # <<>>
       THEN Some(Head(indices))
  ELSE first_missing(a, Tail(indices))

\* App::install_selected on the MCP or plugin tab
install_selected_list(a) ==
  LET indices == queue_indices(a) IN
  IF indices = <<>> THEN a
  ELSE LET m == IF a.tab = "McpServers" THEN first_missing(a, indices) ELSE None IN
       IF m # None
       THEN start_env_input([a EXCEPT !.processing_queue = indices], m[1],
              missing_vars(a.mcp_servers[m[1] + 1].def.env, a.environ))
       ELSE [a EXCEPT !.processing_queue = indices,
                      !.is_removing = FALSE,
                      !.current_view = "Installing"]

\* App::remove_selected on the MCP or plugin tab
remove_selected_list(a) ==
  LET indices == queue_indices(a) IN
  IF indices = <<>> THEN a
  ELSE [a EXCEPT !.processing_queue = indices,
                 !.is_removing = TRUE,
                 !.current_view = "Installing"]

\* App::continue_mcp_install
continue_mcp_install(a) ==
  [a EXCEPT !.is_removing = FALSE, !.current_view = "Installing"]

\* App::env_input_char / env_input_backspace
env_input_char(a, c) == [a EXCEPT !.env_input_buffer = Append(@, c)]
env_input_backspace(a) ==
  IF a.env_input_buffer = <<>> THEN a
  ELSE [a EXCEPT !.env_input_buffer = SubSeq(@, 1, Len(@) - 1)]

\* App::env_input_submit
env_input_submit(a) ==
  IF a.env_input_buffer = <<>> THEN a
  ELSE LET a1 == [a EXCEPT
                    !.env_input_values =
                       Append(@, <<a.env_input_vars[a.env_input_current + 1],
                                   a.env_input_buffer>>),
                    !.env_input_buffer = <<>>,
                    !.env_input_current = @ + 1]
       IN IF a1.env_input_current >= Len(a1.env_input_vars)
          THEN continue_mcp_install(a1) ELSE a1

\* App::env_input_cancel
env_input_cancel(a) ==
  [a EXCEPT !.env_input_server_idx = None,
            !.env_input_vars = <<>>,
            !.env_input_values = <<>>,
            !.env_input_buffer = <<>>,
            !.processing_queue = <<>>,
            !.current_view = "List"]

\* prepare_process_data
prepare_list_process_data(a, idx) ==
  IF a.tab = "McpServers"
  THEN [kind |-> "McpServer", idx |-> idx, def |-> a.mcp_servers[idx + 1].def,
        env_values |-> IF a.env_input_server_idx = Some(idx)
                       THEN a.env_input_values ELSE <<>>]
  ELSE IF a.tab = "Plugins"
  THEN [kind |-> "Plugin", idx |-> idx, def |-> a.plugins[idx + 1].def,
        env_values |-> <<>>]
  ELSE [kind |-> "Component", idx |-> idx, def |-> None, env_values |-> <<>>]

\* dispatch_next_process: take the front of the queue and build its data
dispatch_list_item(a) ==
  [a EXCEPT !.processing_queue = Tail(@),
            !.process_data = Some(prepare_list_process_data(a, Head(a.processing_queue)))]

\* apply_refresh_result followed by close_processing
refresh_and_close(a) ==
  [a EXCEPT !.components = scan_components(a.source_components),
            !.mcp_servers = scan_mcp_servers(a.mcp_catalog, {}),
            !.plugins = scan_plugins(a.plugin_catalog, {}),
            !.current_view = "List",
            !.processing_queue = <<>>,
            !.is_removing = FALSE,
            !.process_data = None]

\* ---- App: the views around the list (CLI choice, diff, project path)
\* App::select_cli followed by start_loading_thread (handle_cli_selection)
cat_select_cli(a, cli) ==
  [a EXCEPT !.target_cli = Some(cli),
            !.tab = Head(for_cli(cli)),
            !.current_view = "Loading"]

\* handle_loading_view, the Ok(Err(e)) arm: the scan failed
cat_loading_failed(a) == [a EXCEPT !.current_view = "CliSelection"]

\* App::set_tab
cat_set_tab(a, idx) ==
  LET tabs == for_cli(unwrap_or(a.target_cli, "Claude")) IN
  IF idx + 1 <= Len(tabs) THEN [a EXCEPT !.tab = tabs[idx + 1]] ELSE a

\* App::show_diff with the cursor on row idx; ok says whether compare_files
\* succeeded (its error is returned before anything changes).
show_diff(a, idx, ok) ==
  IF IsListTab(a.tab) THEN a
  ELSE IF idx < Len(a.components) /\ ok
       THEN [a EXCEPT !.diff_content = Some(idx), !.current_view = "Diff"]
       ELSE a

\* App::close_diff
close_diff(a) == [a EXCEPT !.diff_content = None, !.current_view = "List"]

\* McpScope::toggle
scope_toggle(scope) == IF scope = "User" THEN "Local" ELSE "User"

\* App::toggle_mcp_scope
toggle_mcp_scope(a) ==
  LET a1 == [a EXCEPT !.mcp_scope = scope_toggle(@)] IN
  IF a1.mcp_scope = "Local"
  THEN [a1 EXCEPT !.project_path_buffer = a.mcp_project_path,
                  !.current_view = "ProjectPath"]
  ELSE a1

\* handle_list_input, key 'o': only the MCP tab has a scope
list_key_o(a) == IF a.tab = "McpServers" THEN toggle_mcp_scope(a) ELSE a

\* App::project_path_char / project_path_backspace
project_path_char(a, c) == [a EXCEPT !.project_path_buffer = Append(@, c)]
project_path_backspace(a) ==
  IF a.project_path_buffer = <<>> THEN a
  ELSE [a EXCEPT !.project_path_buffer = SubSeq(@, 1, Len(@) - 1)]

\* A submit that starts the installation at once.
project_path_submit_installs(a) ==
  [a EXCEPT !.mcp_project_path = a.project_path_buffer,
            !.current_view = "Installing"]

\* App::project_path_submit
project_path_submit(a) ==
  LET a1 == IF a.project_path_buffer # <<>>
            THEN [a EXCEPT !.mcp_project_path = a.project_path_buffer]
            ELSE a
  IN [a1 EXCEPT !.current_view = "List"]

\* App::project_path_cancel
project_path_cancel(a) ==
  [a EXCEPT !.mcp_scope = "User", !.current_view = "List"]

\* App::new before any catalog is read
CatIdle == cat = CatNew(<<>>, <<>>, {})

\* --------------------------------- settings.json (fs/installer/settings.rs)
\* serde_json::Value: strings, arrays and objects (a map from keys to values)
Str(s) == [kind |-> "String", s |-> s]
Arr(items) == [kind |-> "Array", items |-> items]
Obj(map) == [kind |-> "Object", map |-> map]

\* Map::remove
map_remove(map, key) == [k \in (DOMAIN map) \ {key} |-> map[k]]

\* the loop of merge_hooks over source_array: push what dest_array lacks
RECURSIVE append_missing(_, _)
append_missing(dest_array, source_array) ==
  IF source_array = <<>> THEN dest_array
  ELSE append_missing(
         IF \E i \in 1 .. Len(dest_array) : dest_array[i] = Head(source_array)
         THEN dest_array ELSE Append(dest_array, Head(source_array)),
         Tail(source_array))

\* A merge_hooks that takes the source's hooks in place of the existing ones.
merge_hooks_overwrite(dest, source) == source

\* settings::merge_hooks
merge_hooks(dest, source) ==
  IF dest.kind = "Object" /\ source.kind = "Object"
  THEN Obj([hook_type \in (DOMAIN dest.map) \cup (DOMAIN source.map) |->
              IF hook_type \notin DOMAIN source.map THEN dest.map[hook_type]
              ELSE IF hook_type \notin DOMAIN dest.map THEN source.map[hook_type]
              ELSE IF dest.map[hook_type].kind = "Array"
                      /\ source.map[hook_type].kind = "Array"
                   THEN Arr(append_missing(dest.map[hook_type].items,
                                           source.map[hook_type].items))
              ELSE dest.map[hook_type]])
  ELSE dest

\* settings::merge_json_values
RECURSIVE merge_json_values(_, _)
merge_json_values(dest, source) ==
  IF dest.kind = "Object" /\ source.kind = "Object"
  THEN Obj([key \in (DOMAIN dest.map) \cup (DOMAIN source.map) |->
              IF key \notin DOMAIN source.map THEN dest.map[key]
              ELSE IF key \notin DOMAIN dest.map THEN source.map[key]
              ELSE IF key = "hooks"
                   THEN merge_hooks(dest.map[key], source.map[key])
              ELSE merge_json_values(dest.map[key], source.map[key])])
  ELSE source

\* settings::merge_settings_json: the document written to dest (dest is
\* None when the file does not exist)
merge_settings_json(source, dest) ==
  IF dest # None THEN merge_json_values(dest[1], source) ELSE source

\* A remove_managed_settings_sections that leaves statusLine in place.
remove_managed_settings_sections_keep_statusline(dest) ==
  IF dest = None THEN [dest |-> dest, wrote |-> FALSE]
  ELSE [dest |-> IF dest[1].kind = "Object"
                 THEN Some(Obj(map_remove(map_remove(dest[1].map, "hooks"),
                                          "outputStyle")))
                 ELSE dest,
        wrote |-> TRUE]

\* settings::remove_managed_settings_sections: the file afterwards and
\* whether write_settings ran
remove_managed_settings_sections(dest) ==
  IF dest = None THEN [dest |-> dest, wrote |-> FALSE]
  ELSE [dest |-> IF dest[1].kind = "Object"
                 THEN Some(Obj(map_remove(map_remove(map_remove(dest[1].map,
                                 "hooks"), "outputStyle"), "statusLine")))
                 ELSE dest,
        wrote |-> TRUE]

\* ---- settings documents the operations are run on
HookEntry(command) ==
  Obj([hooks |-> Arr(<< Obj([type |-> Str("command"), command |-> Str(command)]) >>)])
\* the same command as HookEntry("A") under a matcher
MatcherEntry ==
  Obj([matcher |-> Str("*"),
       hooks |-> Arr(<< Obj([type |-> Str("command"), command |-> Str("A")]) >>)])
HookEntries == {HookEntry("A"), HookEntry("B"), MatcherEntry}

\* Arrays of at most MaxHooks distinct entries, in any order
HookArrays ==
  {a \in UNION {[1 .. n -> HookEntries] : n \in 0 .. MaxHooks} :
     \A i, j \in 1 .. Len(a) : i # j => a[i] # a[j]}

\* Restriction of a map to the keys whose value is present
Present(opt) == {k \in DOMAIN opt : opt[k] # None}
Fields(opt) == [k \in Present(opt) |-> opt[k][1]]

\* "hooks" objects: UserPromptSubmit absent or any array, Stop absent or [B]
HooksObjects ==
  {Obj(Fields([UserPromptSubmit |-> u, Stop |-> st])) :
     u \in {None} \cup {Some(Arr(a)) : a \in HookArrays},
     st \in {None, Some(Arr(<<HookEntry("B")>>))}}

\* The keys of a document next to "hooks"
OtherKeys ==
  { [outputStyle |-> None, statusLine |-> None, model |-> None, env |-> None],
    [outputStyle |-> None, statusLine |-> None, model |-> Some(Str("m1")),
     env |-> None],
    [outputStyle |-> Some(Str("style")),
     statusLine |-> Some(Obj([type |-> Str("command"), command |-> Str("sl")])),
     model |-> None, env |-> None],
    [outputStyle |-> None, statusLine |-> None, model |-> Some(Str("m2")),
     env |-> Some(Obj([K1 |-> Str("v")]))] }

Documents ==
  {Obj(Fields([k \in {"hooks"} \cup DOMAIN o |->
                 IF k = "hooks" THEN h ELSE o[k]])) :
     h \in {None} \cup {Some(x) : x \in HooksObjects}, o \in OtherKeys}

\* ---- hook registration (register_hook_in_settings and its inverse)
\* Strings of this part are sequences of tokens, so that str::contains is a
\* search for a contiguous run of tokens.
Num(n) == [kind |-> "Number", n |-> n]

str_contains(s, pat) ==
  \E i \in 1 .. (Len(s) - Len(pat) + 1) : SubSeq(s, i, i + Len(pat) - 1) = pat

\* Map::insert
map_insert(map, key, val) ==
  [k \in (DOMAIN map) \cup {key} |-> IF k = key THEN val ELSE map[k]]

\* HookConfig (component.rs)
HookConfig(name, event, timeout) ==
  [name |-> name, event |-> event, hook_type |-> "command", timeout |-> timeout]

\* HookConfig::binary_name and hook_command_path, for a Linux build
binary_name(config) == config.name \o <<"_linux">>
hook_command_path(config) == <<"~/.claude/hooks/">> \o binary_name(config)

\* The commands of the hooks array of one entry of an event array.
entry_commands(item) ==
  IF item.kind = "Object" /\ "hooks" \in DOMAIN item.map
       /\ item.map["hooks"].kind = "Array"
  THEN LET hooks_arr == item.map["hooks"].items IN
       {hooks_arr[i].map["command"].s :
          i \in {j \in 1 .. Len(hooks_arr) :
                  /\ hooks_arr[j].kind = "Object"
                  /\ "command" \in DOMAIN hooks_arr[j].map
                  /\ hooks_arr[j].map["command"].kind = "String"}}
  ELSE {}

\* settings::hook_exists_in_array
hook_exists_in_array(arr, hook_command) ==
  \E i \in 1 .. Len(arr) : hook_command \in entry_commands(arr[i])

\* settings::build_hook_entry
build_hook_entry(config, hook_command) ==
  Obj([hooks |-> Arr(<< Obj(Fields(
         [type |-> Some(Str(config.hook_type)),
          command |-> Some(Str(hook_command)),
          timeout |-> IF config.timeout = None THEN None
                      ELSE Some(Num(config.timeout[1]))])) >>)])

\* settings::read_settings: an empty object when the file does not exist
read_settings(dest) == IF dest = None THEN Obj(<<>>) ELSE dest[1]

\* settings::register_hook_in_settings: the file afterwards
register_hook_in_settings(dest, config) ==
  LET hook_command == hook_command_path(config)
      settings == read_settings(dest)
      hooks == IF "hooks" \in DOMAIN settings.map
               THEN settings.map["hooks"] ELSE Obj(<<>>)
      event_hooks == IF config.event \in DOMAIN hooks.map
                     THEN hooks.map[config.event] ELSE Arr(<<>>)
      pushed == IF event_hooks.kind = "Array"
                     /\ ~hook_exists_in_array(event_hooks.items, hook_command)
                THEN Arr(Append(event_hooks.items,
                                build_hook_entry(config, hook_command)))
                ELSE event_hooks
  IN Some(Obj(map_insert(settings.map, "hooks",
                Obj(map_insert(hooks.map, config.event, pushed)))))

\* The closure of retain, with the comparison cmd == hook_command_path in
\* place of cmd.contains(&config.name).
entry_names_hook_exact(item, config) ==
  hook_command_path(config) \in entry_commands(item)

\* The closure of retain in unregister_hook_from_settings, negated: some
\* command of the entry contains config.name.
entry_names_hook(item, config) ==
  \E cmd \in entry_commands(item) : str_contains(cmd, config.name)

\* settings::unregister_hook_from_settings: the file afterwards and whether
\* write_settings ran
unregister_hook_from_settings(dest, config) ==
  IF dest = None THEN [dest |-> dest, wrote |-> FALSE]
  ELSE LET settings == dest[1] IN
  IF ~("hooks" \in DOMAIN settings.map /\ settings.map["hooks"].kind = "Object")
  THEN [dest |-> dest, wrote |-> FALSE]
  ELSE LET hooks == settings.map["hooks"].map IN
  IF ~(config.event \in DOMAIN hooks /\ hooks[config.event].kind = "Array")
  THEN [dest |-> dest, wrote |-> FALSE]
  ELSE
    LET retained == SelectSeq(hooks[config.event].items,
                              LAMBDA item : ~entry_names_hook(item, config))
        hooks1 == IF retained = <<>> THEN map_remove(hooks, config.event)
                  ELSE map_insert(hooks, config.event, Arr(retained))
        map1 == IF DOMAIN hooks1 = {} THEN map_remove(settings.map, "hooks")
                ELSE map_insert(settings.map, "hooks", Obj(hooks1))
    IN [dest |-> Some(Obj(map1)), wrote |-> TRUE]

\* ---- hooks and settings files the registration is run on
HookConfigs ==
  { HookConfig(<<"a">>, "Stop", None),
    HookConfig(<<"a", "b">>, "Stop", Some(5)),
    HookConfig(<<"a">>, "PreToolUse", None) }

\* Entries an event array may hold: the entries of the hooks above and one
\* the user wrote.
UserEntry ==
  Obj([matcher |-> Str(<<"*">>),
       hooks |-> Arr(<< Obj([type |-> Str("command"),
                             command |-> Str(<<"u">>)]) >>)])
RegisteredEntries ==
  {build_hook_entry(c, hook_command_path(c)) : c \in HookConfigs} \cup {UserEntry}

\* settings.json: absent, or an object with "model" and possibly a "hooks"
\* object whose Stop array has at most MaxHooks distinct entries.
HookFiles ==
  {None, Some(Obj([model |-> Str("m1")]))}
    \cup {Some(Obj([model |-> Str("m1"), hooks |-> Obj([Stop |-> Arr(a)])])) :
            a \in {x \in UNION {[1 .. n -> RegisteredEntries] : n \in 1 .. MaxHooks} :
                     \A i, j \in 1 .. Len(x) : i # j => x[i] # x[j]}}

\* ------------------------------------------------------- the stderr reader
\* The marker pushed when the ceiling is reached, as one token.
TruncationMarker == "\n[... output truncated]"

\* What reader.lines() yields for one line: Ok(line) without its line ending,
\* or Err when the bytes read are not valid UTF-8.
OkLine(line) == [ok |-> TRUE, line |-> line]
ErrLine == [ok |-> FALSE, line |-> <<>>]

\* The thread on entry: nothing read of input, String::new() as output.
reader_new(input) ==
  [ input |-> input, pos |-> 0, output |-> <<>>, pc |-> "loop" ]

\* String::len of the captured text, in bytes (each character is one byte).
byte_len(s) == Len(s)

\* The body of the for loop with the comparison >= in place of >.
stderr_thread_step_strict(r) ==
  LET item == r.input[r.pos + 1]
      r1 == [r EXCEPT !.pos = @ + 1]
  IN IF ~item.ok THEN r1
     ELSE IF byte_len(r.output) + byte_len(item.line) + 1 >= MAX_STDERR_BYTES
     THEN [r1 EXCEPT !.output = Append(@, TruncationMarker), !.pc = "returned"]
     ELSE [r1 EXCEPT !.output = (@ \o item.line) \o <<"\n">>]

\* One iteration of the for loop of stderr_thread over reader.lines().
stderr_thread_step(r) ==
  LET item == r.input[r.pos + 1]
      r1 == [r EXCEPT !.pos = @ + 1]
  IN IF ~item.ok THEN r1
     ELSE IF byte_len(r.output) + byte_len(item.line) + 1 > MAX_STDERR_BYTES
     THEN [r1 EXCEPT !.output = Append(@, TruncationMarker), !.pc = "returned"]
     ELSE [r1 EXCEPT !.output = (@ \o item.line) \o <<"\n">>]

\* The iterator is exhausted: the closure returns output.
stderr_thread_end(r) == [r EXCEPT !.pc = "returned"]

ReaderIdle == reader = reader_new(<<>>)

\* No settings.json component handled yet
SettingsIdle ==
  disk = [source |-> Obj(<<>>), dest |-> None,
          hist |-> [op |-> "new", dest |-> None, wrote |-> FALSE]]

\* App::new leaves tree_views empty and components unscanned.
TreeIdle ==
  /\ tree = DefaultTree
  /\ components = <<>>
  /\ tree_hist = [op |-> "new", tree |-> DefaultTree, components |-> <<>>]

Init == CoreInit /\ TreeIdle /\ CatIdle /\ SettingsIdle /\ ReaderIdle

Next ==
  \/ \E key \in CliKeys : CliSelectionKey(key)
  \/ \E key \in LoadingKeys : LoadingTick(key)
  \/ ListQuit
  \/ \E idx \in TabKeys : ListSetTab(idx)
  \/ \E sel \in SUBSET Items : ListInstall(sel)
  \/ \E sel \in SUBSET Items : ListRemove(sel)
  \/ \E key \in InstallingKeys : InstallingTick(key)
  \/ \E ok \in BOOLEAN : ScanFinish(ok)
  \/ ScanCrash
  \/ \E o \in Ops, ok \in BOOLEAN : ThreadFs(o, ok)
  \/ \E o \in Ops, found \in BOOLEAN : ThreadMarketplaceList(o, found)
  \/ \E o \in Ops, ok \in BOOLEAN : ThreadSpawn(o, ok)
  \/ \E o \in Ops : ThreadCrash(o)
  \/ \E o \in Ops, ret \in BOOLEAN : RunnerDeadline(o, ret)
  \/ \E o \in Ops, failed \in BOOLEAN : RunnerWait(o, failed)
  \/ \E o \in Ops, ret \in BOOLEAN : RunnerCancel(o, ret)
  \/ \E o \in Ops, e \in ExitInputs : ChildExit(o, e)
  \/ \E o \in Ops : TimePasses(o)

Spec == Init /\ [][Next]_vars

\* -------------------------------------------- the tree view on its own
\* Component lists of one tab: up to MaxComponents distinct names, any order.
NameLists ==
  {names \in UNION {[1 .. n -> NamePool] : n \in 0 .. MaxComponents} :
     \A i, j \in 1 .. Len(names) : i # j => names[i] # names[j]}

\* build_tree_views for one tab; Component::new leaves selected false.
TreeInit ==
  /\ CoreInit /\ CatIdle /\ SettingsIdle /\ ReaderIdle
  /\ \E names \in NameLists :
       /\ tree = build_from_components(names)
       /\ components = [i \in 1 .. Len(names) |->
                          [name |-> names[i], selected |-> FALSE]]
       /\ tree_hist = [op |-> "build", tree |-> DefaultTree, components |-> <<>>]

\* One call of a TreeView method (or of toggle_selected) from the List view.
TreeStep(op, t, comps) ==
  /\ tree' = t
  /\ components' = comps
  /\ tree_hist' = [op |-> op, tree |-> tree, components |-> components]
  /\ UNCHANGED <<core_vars, cat, disk, reader>>

TreeNextItem == TreeStep("next", next(tree), components)
TreePrevItem == TreeStep("prev", prev(tree), components)
TreeToggleExpand == TreeStep("toggle_expand", toggle_expand(tree), components)
TreeExpand == TreeStep("expand", expand(tree), components)
TreeCollapse == TreeStep("collapse", collapse(tree), components)
TreeCollapseParent == TreeStep("collapse_parent", collapse_parent(tree), components)
TreeToggleSelected ==
  TreeStep("toggle_selected", tree, toggle_selected(tree, components))

TreeNext ==
  \/ TreeNextItem
  \/ TreePrevItem
  \/ TreeToggleExpand
  \/ TreeExpand
  \/ TreeCollapse
  \/ TreeCollapseParent
  \/ TreeToggleSelected

TreeSpec == TreeInit /\ [][TreeNext]_vars

\* ------------------------------- the catalog and the secret prompt on their own
\* The two catalog files (at most MaxCatalog entries together) and the
\* variables present in the environment.
CatInit ==
  /\ CoreInit /\ TreeIdle /\ SettingsIdle /\ ReaderIdle
  /\ \E n \in 0 .. MaxCatalog :
       \E m \in Picks(McpPool, n), p \in Picks(PluginPool, MaxCatalog - n),
          environ \in SUBSET EnvNames :
            cat = CatNew(m, p, environ)

CatStep(a) == cat' = a /\ UNCHANGED <<core_vars, tree_vars, disk, reader>>

CatScan == cat.current_view = "Loading" /\ CatStep(finish_loading(cat))
CatSetTab(t) == cat.current_view = "List" /\ CatStep([cat EXCEPT !.tab = t])
CatToggle(idx) ==
  cat.current_view = "List" /\ CatStep(toggle_list_selected(cat, idx))
CatInstall == cat.current_view = "List" /\ CatStep(install_selected_list(cat))
CatRemove == cat.current_view = "List" /\ CatStep(remove_selected_list(cat))
CatEnvChar(c) ==
  /\ cat.current_view = "EnvInput"
  /\ Len(cat.env_input_buffer) < MaxSecretLen
  /\ CatStep(env_input_char(cat, c))
CatEnvBackspace ==
  cat.current_view = "EnvInput" /\ CatStep(env_input_backspace(cat))
CatEnvSubmit == cat.current_view = "EnvInput" /\ CatStep(env_input_submit(cat))
CatEnvCancel == cat.current_view = "EnvInput" /\ CatStep(env_input_cancel(cat))
CatDispatch ==
  /\ cat.current_view = "Installing" /\ cat.processing_queue # <<>>
  /\ CatStep(dispatch_list_item(cat))
CatClose ==
  /\ cat.current_view = "Installing" /\ cat.processing_queue = <<>>
  /\ CatStep(refresh_and_close(cat))

CatNext ==
  \/ CatScan
  \/ \E t \in {"McpServers", "Plugins"} : CatSetTab(t)
  \/ \E idx \in 0 .. (MaxCatalog - 1) : CatToggle(idx)
  \/ CatInstall
  \/ CatRemove
  \/ \E c \in {"v"} : CatEnvChar(c)
  \/ CatEnvBackspace
  \/ CatEnvSubmit
  \/ CatEnvCancel
  \/ CatDispatch
  \/ CatClose

CatSpec == CatInit /\ [][CatNext]_vars

\* ---------------------------------------------------------------- views
\* The whole interaction state machine of run_app over small catalogs: one
\* server that needs K1, one that needs nothing, one plugin, at most
\* MaxCatalog component files.
ViewMcpPool == << McpPool[1], McpPool[3] >>
ViewPluginPool == << PluginPool[1] >>

\* Keys of the list view that pick a tab (indices into available_tabs).
ViewTabKeys == {0, 2, 9, 10}

ViewInit ==
  /\ CoreInit /\ TreeIdle /\ SettingsIdle /\ ReaderIdle
  /\ \E m \in Picks(ViewMcpPool, MaxCatalog), p \in Picks(ViewPluginPool, MaxCatalog),
        environ \in SUBSET {"K1"}, n \in 0 .. MaxCatalog :
          cat = [CatNew(m, p, environ) EXCEPT !.current_view = "CliSelection",
                                              !.source_components = n]

ViewSelectCli(cli) ==
  cat.current_view = "CliSelection" /\ CatStep(cat_select_cli(cat, cli))
ViewScanFail ==
  cat.current_view = "Loading" /\ CatStep(cat_loading_failed(cat))
ViewSetTab(idx) == cat.current_view = "List" /\ CatStep(cat_set_tab(cat, idx))
ViewShowDiff(idx, ok) ==
  cat.current_view = "List" /\ CatStep(show_diff(cat, idx, ok))
ViewCloseDiff == cat.current_view = "Diff" /\ CatStep(close_diff(cat))
ViewToggleScope == cat.current_view = "List" /\ CatStep(list_key_o(cat))
ViewPathChar(c) ==
  /\ cat.current_view = "ProjectPath"
  /\ Len(cat.project_path_buffer) < MaxPathLen
  /\ CatStep(project_path_char(cat, c))
ViewPathBackspace ==
  cat.current_view = "ProjectPath" /\ CatStep(project_path_backspace(cat))
ViewPathSubmit ==
  cat.current_view = "ProjectPath" /\ CatStep(project_path_submit(cat))
ViewPathCancel ==
  cat.current_view = "ProjectPath" /\ CatStep(project_path_cancel(cat))

ViewNext ==
  \/ \E cli \in {"Claude", "Codex"} : ViewSelectCli(cli)
  \/ CatScan
  \/ ViewScanFail
  \/ \E idx \in ViewTabKeys : ViewSetTab(idx)
  \/ \E idx \in 0 .. (MaxCatalog - 1) : CatToggle(idx)
  \/ \E idx \in 0 .. (MaxCatalog - 1), ok \in BOOLEAN : ViewShowDiff(idx, ok)
  \/ ViewCloseDiff
  \/ ViewToggleScope
  \/ \E c \in {"d"} : ViewPathChar(c)
  \/ ViewPathBackspace
  \/ ViewPathSubmit
  \/ ViewPathCancel
  \/ CatInstall
  \/ CatRemove
  \/ \E c \in {"v"} : CatEnvChar(c)
  \/ CatEnvBackspace
  \/ CatEnvSubmit
  \/ CatEnvCancel
  \/ CatDispatch
  \/ CatClose

ViewSpec == ViewInit /\ [][ViewNext]_vars

\* ------------------------------------------------ the stderr reader on its own
\* Lines of at most MaxLineLen bytes, and what a child writes: at most
\* MaxLines lines, any of which may fail to decode.
StderrLines ==
  UNION {[1 .. n -> {"a", "b"}] : n \in 0 .. MaxLineLen}

StderrInputs ==
  UNION {[1 .. n -> {OkLine(l) : l \in StderrLines} \cup {ErrLine}] :
           n \in 0 .. MaxLines}

ReaderInit ==
  /\ CoreInit /\ TreeIdle /\ CatIdle /\ SettingsIdle
  /\ \E input \in StderrInputs : reader = reader_new(input)

ReaderStep(r) == reader' = r /\ UNCHANGED <<core_vars, tree_vars, cat, disk>>

ReaderLine ==
  /\ reader.pc = "loop" /\ reader.pos < Len(reader.input)
  /\ ReaderStep(stderr_thread_step(reader))

ReaderEnd ==
  /\ reader.pc = "loop" /\ reader.pos = Len(reader.input)
  /\ ReaderStep(stderr_thread_end(reader))

ReaderNext == ReaderLine \/ ReaderEnd

ReaderSpec == ReaderInit /\ [][ReaderNext]_vars

\* ------------------------------------- the settings.json component on its own
\* The component's source document and the destination file, if any
SettingsInit ==
  /\ CoreInit /\ TreeIdle /\ CatIdle /\ ReaderIdle
  /\ \E source \in Documents, dest \in {None} \cup {Some(d) : d \in Documents} :
       disk = [source |-> source, dest |-> dest,
               hist |-> [op |-> "new", dest |-> None, wrote |-> FALSE]]

\* install_component for the settings.json ConfigFile
SettingsInstall ==
  /\ disk' = [disk EXCEPT
                !.dest = Some(merge_settings_json(disk.source, disk.dest)),
                !.hist = [op |-> "merge", dest |-> disk.dest, wrote |-> TRUE]]
  /\ UNCHANGED <<core_vars, tree_vars, cat, reader>>

\* remove_component for the settings.json ConfigFile
SettingsRemove ==
  /\ LET r == remove_managed_settings_sections(disk.dest) IN
       disk' = [disk EXCEPT
                  !.dest = r.dest,
                  !.hist = [op |-> "remove", dest |-> disk.dest, wrote |-> r.wrote]]
  /\ UNCHANGED <<core_vars, tree_vars, cat, reader>>

SettingsNext == SettingsInstall \/ SettingsRemove

SettingsSpec == SettingsInit /\ [][SettingsNext]_vars

\* ------------------------------------------- hook registration on its own
HookInit ==
  /\ CoreInit /\ TreeIdle /\ CatIdle /\ ReaderIdle
  /\ \E dest \in HookFiles :
       disk = [source |-> Obj(<<>>), dest |-> dest,
               hist |-> [op |-> "new", dest |-> None, wrote |-> FALSE]]

\* install_component for a hook, after the binary is copied
HookRegister(config) ==
  /\ disk' = [disk EXCEPT
                !.dest = register_hook_in_settings(disk.dest, config),
                !.hist = [op |-> "register", dest |-> disk.dest, wrote |-> TRUE]]
  /\ UNCHANGED <<core_vars, tree_vars, cat, reader>>

\* remove_component for a hook
HookUnregister(config) ==
  /\ LET r == unregister_hook_from_settings(disk.dest, config) IN
       disk' = [disk EXCEPT
                  !.dest = r.dest,
                  !.hist = [op |-> "unregister", dest |-> disk.dest,
                            wrote |-> r.wrote]]
  /\ UNCHANGED <<core_vars, tree_vars, cat, reader>>

HookNext ==
  \/ \E config \in HookConfigs : HookRegister(config)
  \/ \E config \in HookConfigs : HookUnregister(config)

HookSpec == HookInit /\ [][HookNext]_vars

\* ------------------------------------------------------------------ claims
\* Log lines the claims speak of.
IsStartLine(l) == Len(l) = 3 /\ l[1] \in {"Installing", "Removing"} /\ l[3] = "..."
IsResultLine(l) ==
  /\ l # <<>>
  /\ l[1] \in {"[OK] Installed", "[OK] Removed", "[ERR]",
               "[WARN] Cancelled by user", "[ERR] Process thread crashed"}
WarnCancelling == <<"[WARN] Cancelling current operation...">>
LogCount(P(_)) ==
  Cardinality({i \in 1 .. Len(app.processing_log) : P(app.processing_log[i])})

\* A thread whose runner has returned (the thread sent the mapped result).
RunnerReturned(th) == th.pc = "done" /\ th.stage # "none"

\* C1: a cancellation signal sent strictly after the child has exited with
\* status zero never makes the runner return the Cancelled error (the claim
\* says more: that the runner then returns Success).
C1_LateCancelNeverCancelled ==
  \A o \in Ops :
    RunnerReturned(threads[o]) /\ threads[o].late_cancel
      => threads[o].outcome # "Cancelled"

\* C2: at most one execution thread is in flight at any instant, it is in
\* flight only while processing_active is set, and the log never holds two
\* "Installing X..." / "Removing X..." lines without a result line between.
C2_OneInFlight ==
  /\ Cardinality(LiveThreads(State)) <= 1
  /\ LiveThreads(State) # {} => channels.processing_active
  /\ LogCount(IsStartLine) - LogCount(IsResultLine) \in {0, 1}
  /\ LogCount(IsStartLine) - LogCount(IsResultLine) = 1
       => channels.processing_active

\* C2 witness: the second item of a queue is in flight.
C2_Witness ==
  /\ op_seq = 2 /\ LiveThreads(State) = {2}
  /\ LogCount(IsStartLine) = 2 /\ LogCount(IsResultLine) = 1

CrashLine == <<"[ERR] Process thread crashed">>

\* C3: a crash of the in-flight execution thread is reported rather than
\* hanging the queue: the tick of the Installing view that follows the crash
\* logs "[ERR] Process thread crashed" and goes on with the next item or,
\* the queue being empty, clears processing_active and enters the refresh
\* phase.  (A tick that does not do so changes nothing, so no later tick does.)
C3_CrashRecordedOnTick ==
  \A o \in Ops :
    threads[o].pc = "crashed" /\ process_chan = <<>> =>
      LET T == handle_installing_view(State, "None") IN
        /\ \E i \in 1 .. Len(T.app.processing_log) :
             T.app.processing_log[i] = CrashLine
        /\ app.processing_queue # <<>> => T.op_seq = op_seq + 1
        /\ app.processing_queue = <<>> =>
             ~T.channels.processing_active /\ T.app.needs_refresh

\* C4: within one Processing session, no item is dispatched after the user's
\* cancellation was accepted: the log holds no "Installing X..." /
\* "Removing X..." line after a "[WARN] Cancelling current operation..." line.
C4_NoDispatchAfterCancel ==
  \A i, j \in 1 .. Len(app.processing_log) :
    i < j /\ app.processing_log[i] = WarnCancelling
      => ~IsStartLine(app.processing_log[j])

\* C5: a cancellation signal sent for operation N is never received by the
\* runner of another operation: a runner only ever receives a signal tagged
\* with its own operation, a queued signal waits on the receiver of the
\* operation it was sent for (never on the spare receiver the next dispatch
\* will hand out), and the sender the UI uses feeds the in-flight thread's
\* receiver while cancel_tx already belongs to the next pair.
C5_CancelReachesOwnOp ==
  /\ \A o \in Ops : threads[o].got_signal \in {0, o}
  /\ cancel_chan[channels.cancel_rx] = <<>>
  /\ \A o \in LiveThreads(State) :
       /\ \A i \in 1 .. Len(cancel_chan[threads[o].rx]) :
            cancel_chan[threads[o].rx][i].op = o
       /\ channels.current_cancel_tx = threads[o].rx
       /\ channels.cancel_tx # threads[o].rx

\* C5 witness: a cancellation was accepted earlier in this session and the
\* runner of the next operation is polling with nothing sent to it.
C5_Witness ==
  /\ op_seq = 2 /\ InLoop(threads[2]) /\ threads[2].cancel_sends = 0
  /\ \E i \in 1 .. Len(app.processing_log) : app.processing_log[i] = WarnCancelling

LastStart ==
  LET starts == {i \in 1 .. Len(app.processing_log) :
                   IsStartLine(app.processing_log[i])}
  IN IF starts = {} THEN 0 ELSE CHOOSE i \in starts : \A j \in starts : j <= i

WarnSinceStart ==
  Cardinality({i \in (LastStart + 1) .. Len(app.processing_log) :
                 app.processing_log[i] = WarnCancelling})

IsWarnCancelling(l) == l = WarnCancelling

\* C6: for one in-flight operation at most one cancellation signal is sent
\* and the cancelling warning is logged once, however often Esc is pressed;
\* the latch is set together with that one warning and is released only in a
\* step that receives the operation's result.
C6_CancelOnce ==
  /\ [](/\ \A o \in Ops : threads[o].cancel_sends <= 1
        /\ \A c \in Chans : Len(cancel_chan[c]) <= 1
        /\ WarnSinceStart <= 1
        /\ app.cancelling => channels.processing_active /\ WarnSinceStart = 1)
  /\ [][/\ app.cancelling /\ ~app.cancelling'
             => process_chan # <<>> /\ process_chan' = Tail(process_chan)
        /\ ~app.cancelling /\ app.cancelling'
             => LogCount(IsWarnCancelling)' = LogCount(IsWarnCancelling) + 1]_vars

\* C6 witness: the signal was sent and consumed, the result waits in the
\* process channel and the latch is still held.
C6_Witness ==
  /\ app.cancelling /\ process_chan # <<>>
  /\ \E o \in Ops : threads[o].got_signal = o /\ threads[o].cancel_sends = 1

RefreshApplied ==
  \E i \in 1 .. Len(app.processing_log) :
    app.processing_log[i] = <<"[OK] Status refresh complete!">>

RefreshFailureLogged ==
  \E i \in 1 .. Len(app.processing_log) :
    /\ app.processing_log[i] # <<>>
    /\ app.processing_log[i][1] \in
         {"[ERROR] Refresh failed:", "[ERROR] Refresh thread crashed"}

\* What must hold when a step leaves the Installing view, given what counts
\* as the refresh being over.
LeavesInstallingOnlyWhen(refresh_over) ==
  app.current_view = "Installing" =>
    /\ ~app.should_quit'
    /\ app.current_view' # "Installing" =>
         /\ app.processing_queue = <<>>
         /\ ~channels.processing_active /\ LiveThreads(State) = {}
         /\ refresh_over
         /\ app.processing_complete
         /\ app.current_view' = "List" /\ app.processing_log' = <<>>

\* C7 as stated: in the Installing view no key sets should_quit, and the view
\* is left only when the queue is empty, nothing is in flight, the refresh has
\* been applied and processing_complete is set (this is close_processing).
C7_LeaveOnlyAfterRefreshApplied ==
  [][LeavesInstallingOnlyWhen(RefreshApplied)]_vars

\* C7 amended: ... the refresh has finished, that is, it has been applied or
\* its failure has been logged ...
C7_LeaveOnlyAfterRefreshFinished ==
  [][LeavesInstallingOnlyWhen(RefreshApplied \/ RefreshFailureLogged)]_vars

\* C7 witness: a Processing session that dispatched work has been dismissed.
C7_Witness == app.current_view = "List" /\ op_seq >= 1

Failures == {"Failure", "TimedOut", "SysErr", "SpawnErr", "FsErr"}

\* C8: a per-item failure (anything but a user cancellation) leaves the rest
\* of the queue intact: the tick that receives such a result with items still
\* queued dispatches the next of them.
C8_FailureKeepsQueue ==
  [][(/\ channels.processing_active
      /\ process_chan # <<>> /\ process_chan' = Tail(process_chan)
      /\ Head(process_chan).outcome \in Failures
      /\ app.processing_queue # <<>>)
       => (/\ op_seq' = op_seq + 1
           /\ threads'[op_seq'].idx = Head(app.processing_queue)
           /\ app.processing_queue' = Tail(app.processing_queue))]_vars

\* The runner of o has returned for a child that never exited by itself and
\* without having received a cancellation signal.
HungUncancelled(th) ==
  RunnerReturned(th) /\ th.child # "none" /\ ~th.exited /\ th.got_signal = 0

C10_ChildReapedOnReturn ==
  \A o \in Ops :
    RunnerReturned(threads[o]) /\ threads[o].child # "none"
      => threads[o].child = "reaped"

RefreshCrashLine == <<"[ERROR] Refresh thread crashed">>

\* C11: a fault of the refresh thread during the post-pass refresh (it ends
\* without sending a result) is treated as a failure, never as a hang: the
\* tick of the Installing view that follows the fault logs it, clears
\* refreshing and sets processing_complete.  (A tick that does not do so
\* changes nothing, so no later tick does.)
C11_RefreshFaultRecordedOnTick ==
  (/\ app.current_view = "Installing" /\ app.refreshing
   /\ scan_thread = "crashed" /\ refresh_chan = <<>>)
    => LET T == handle_installing_view(State, "None") IN
         /\ \E i \in 1 .. Len(T.app.processing_log) :
              T.app.processing_log[i] = RefreshCrashLine
         /\ ~T.app.refreshing
         /\ T.app.processing_complete

\* A step in which start_refresh_thread spawns the post-pass scan.
RefreshStarts ==
  app.current_view = "Installing" /\ scan_thread # "running" /\ scan_thread' = "running"

RefreshResultLogged == RefreshApplied \/ RefreshFailureLogged

\* C20: the post-pass refresh starts only with the queue empty and nothing in
\* flight; no refresh thread of the session is running, pending or finished
\* when one starts (at most one per session); processing_complete is true only
\* once that thread's result has been received; and nothing is dispatched once
\* the refresh has started.
C20_RefreshOnceAfterQueue ==
  /\ [](app.processing_complete =>
          /\ RefreshResultLogged
          /\ scan_thread # "running" /\ refresh_chan = <<>>
          /\ ~app.refreshing)
  /\ [][/\ RefreshStarts =>
             /\ app.processing_queue' = <<>>
             /\ ~channels.processing_active' /\ LiveThreads(State)' = {}
             /\ scan_thread = "none" /\ refresh_chan = <<>>
             /\ ~app.refreshing /\ ~app.processing_complete
             /\ ~RefreshResultLogged'
        /\ op_seq' # op_seq =>
             /\ ~app.refreshing /\ ~app.refreshing'
             /\ scan_thread' = "none" /\ refresh_chan' = <<>>
             /\ ~RefreshResultLogged']_vars

\* C20 witness: both items of a queue were dispatched and the refresh that
\* followed has been applied.
C20_Witness ==
  /\ app.current_view = "Installing" /\ app.processing_complete
  /\ op_seq = 2 /\ RefreshApplied

\* ---- tree claims: the tree as a structure, read off parent_idx / children
NodeIds(t) == 0 .. (Len(t.nodes) - 1)

RECURSIVE Ancestors(_, _)
Ancestors(t, n) ==
  LET par == t.nodes[n + 1].parent_idx IN
  IF par = None THEN {} ELSE {par[1]} \cup Ancestors(t, par[1])

LeavesUnder(t, f) ==
  {t.nodes[n + 1].component_idx :
     n \in {m \in NodeIds(t) : ~t.nodes[m + 1].is_folder /\ f \in Ancestors(t, m)}}

\* Sibling positions on the way from the root to node n.
RECURSIVE PathOf(_, _)
PathOf(t, n) ==
  LET par == t.nodes[n + 1].parent_idx
      sibs == IF par = None THEN t.root_children
              ELSE t.nodes[par[1] + 1].children
      k == CHOOSE k \in 1 .. Len(sibs) : sibs[k] = n
  IN (IF par = None THEN <<>> ELSE PathOf(t, par[1])) \o <<k>>

\* Depth-first (pre-order) comparison of two paths.
RECURSIVE DfsBefore(_, _)
DfsBefore(a, b) ==
  IF a = <<>> THEN b # <<>>
  ELSE IF b = <<>> THEN FALSE
  ELSE IF Head(a) = Head(b) THEN DfsBefore(Tail(a), Tail(b))
  ELSE Head(a) < Head(b)

SelectedAmong(comps, idxs) == {i \in idxs : comps[i + 1].selected}

CursorNode(t) == current_node_idx(t)[1]

\* C12: toggling selection on a folder is all-or-nothing over every leaf of
\* its subtree: all leaves selected before -> none selected after; otherwise
\* all selected after.  From all N deselected one toggle selects N and a
\* second toggle leaves zero selected.
C12_FolderToggleAllOrNothing ==
  (tree_hist.op = "toggle_selected" /\ is_on_folder(tree_hist.tree)) =>
    LET leaves == LeavesUnder(tree_hist.tree, CursorNode(tree_hist.tree))
        was == SelectedAmong(tree_hist.components, leaves)
        now == SelectedAmong(components, leaves)
        again == SelectedAmong(toggle_selected(tree, components), leaves)
    IN /\ leaves # {}
       /\ was = leaves => now = {}
       /\ was # leaves => now = leaves
       /\ was = {} => now = leaves /\ again = {}

\* C12 witness: a folder with two or more leaves, some but not all of them
\* selected, has just been toggled.
C12_Witness ==
  /\ tree_hist.op = "toggle_selected" /\ is_on_folder(tree_hist.tree)
  /\ LET leaves == LeavesUnder(tree_hist.tree, CursorNode(tree_hist.tree))
         was == SelectedAmong(tree_hist.components, leaves)
     IN Cardinality(leaves) >= 2 /\ was # {} /\ was # leaves

\* visible_indices of t without the descendants of folder f
RECURSIVE WithoutDescendants(_, _, _)
WithoutDescendants(t, v, f) ==
  IF v = <<>> THEN <<>>
  ELSE (IF f \in Ancestors(t, Head(v)) THEN <<>> ELSE <<Head(v)>>)
         \o WithoutDescendants(t, Tail(v), f)

CollapseRestores(before) ==
  LET f == CursorNode(before) IN
    /\ tree.visible_indices =
         WithoutDescendants(before, before.visible_indices, f)
    /\ f \in SeqRange(tree.visible_indices)
    /\ expand(tree).visible_indices = before.visible_indices

\* C13 as stated: for any folder under the cursor, collapse() removes exactly
\* that folder's descendants from visible_indices (the folder stays) and a
\* following expand() restores visible_indices to what it was before.
C13_CollapseExpandAnyFolder ==
  (tree_hist.op = "collapse" /\ is_on_folder(tree_hist.tree))
    => CollapseRestores(tree_hist.tree)

\* C13 amended: ... for any expanded folder under the cursor ...
C13_CollapseExpandExpandedFolder ==
  (/\ tree_hist.op = "collapse" /\ is_on_folder(tree_hist.tree)
   /\ tree_hist.tree.nodes[CursorNode(tree_hist.tree) + 1].expanded)
    => CollapseRestores(tree_hist.tree)

\* C13 witness: a folder that holds a collapsed sub-folder has been collapsed.
C13_Witness ==
  /\ tree_hist.op = "collapse" /\ is_on_folder(tree_hist.tree)
  /\ LET f == CursorNode(tree_hist.tree) IN
       /\ tree_hist.tree.nodes[f + 1].expanded
       /\ \E m \in NodeIds(tree) :
            /\ f \in Ancestors(tree, m)
            /\ tree.nodes[m + 1].is_folder /\ ~tree.nodes[m + 1].expanded
  /\ Len(tree.visible_indices) < Len(tree_hist.tree.visible_indices)

\* C14: a node is in visible_indices iff every ancestor folder is expanded,
\* and visible_indices lists those nodes in depth-first order, each once.
C14_VisibleIffAncestorsExpanded ==
  /\ \A n \in NodeIds(tree) :
       n \in SeqRange(tree.visible_indices)
         <=> \A a \in Ancestors(tree, n) : tree.nodes[a + 1].expanded
  /\ SeqRange(tree.visible_indices) \subseteq NodeIds(tree)
  /\ \A i, j \in 1 .. Len(tree.visible_indices) :
       i < j => DfsBefore(PathOf(tree, tree.visible_indices[i]),
                          PathOf(tree, tree.visible_indices[j]))

\* C14 witness: after a collapse_parent some nodes are hidden while a folder
\* further down is still flagged expanded.
C14_Witness ==
  /\ tree_hist.op = "collapse_parent"
  /\ \E n \in NodeIds(tree) :
       /\ n \notin SeqRange(tree.visible_indices)
       /\ tree.nodes[n + 1].is_folder /\ tree.nodes[n + 1].expanded

HasMetaChar(cmd) ==
  \E i \in 1 .. Len(cmd) :
     cmd[i] \in {";", "&", "|", ">", "<", "backtick", "$", "(", ")"}

UnsafeName(n) ==
  \/ n = <<>>
  \/ Len(n) > MaxIdentifierLen
  \/ Head(n) = "-"
  \/ \E i \in 1 .. Len(n) :
       n[i] \notin {"a", "b", "h", "p", "s", "t", "x", "7", "_", "-"}

NotHttps(u) ==
  Len(u) <= 8 \/ SubSeq(u, 1, 8) # <<"h", "t", "t", "p", "s", ":", "/", "/">>

McpFailsValidation(def) ==
  \/ UnsafeName(def.name)
  \/ def.command # None /\ HasMetaChar(def.command[1])
  \/ def.url # None /\ NotHttps(def.url[1])

PluginFailsValidation(def) ==
  UnsafeName(def.name) \/ UnsafeName(def.marketplace) \/ NotHttps(def.source)

ActiveList == IF cat.tab = "McpServers" THEN cat.mcp_servers ELSE cat.plugins

FailsValidation(kind, def) ==
  IF kind = "McpServer" THEN McpFailsValidation(def)
  ELSE PluginFailsValidation(def)

\* C16: no catalog entry that fails validation (MCP: command with one of
\* ; & | > < ` $ ( ), unsafe name, non-https url; plugin: unsafe name or
\* marketplace, non-https source) is in the scanned lists, in
\* processing_queue, or handed to an execution thread.
C16_InvalidNeverDispatchable ==
  /\ \A i \in 1 .. Len(cat.mcp_servers) :
       ~McpFailsValidation(cat.mcp_servers[i].def)
  /\ \A i \in 1 .. Len(cat.plugins) :
       ~PluginFailsValidation(cat.plugins[i].def)
  /\ \A k \in 1 .. Len(cat.processing_queue) :
       /\ cat.processing_queue[k] < Len(ActiveList)
       /\ ~FailsValidation(IF cat.tab = "McpServers" THEN "McpServer" ELSE "Plugin",
                           ActiveList[cat.processing_queue[k] + 1].def)
  /\ cat.process_data # None =>
       ~FailsValidation(cat.process_data[1].kind, cat.process_data[1].def)

\* C16 witness: mcps.yaml holds an entry whose command contains ';' next to
\* a sound one, and the sound one has been dispatched.
C16_Witness ==
  /\ \E i \in 1 .. Len(cat.mcp_catalog) :
       /\ cat.mcp_catalog[i].command # None
       /\ \E j \in 1 .. Len(cat.mcp_catalog[i].command[1]) :
            cat.mcp_catalog[i].command[1][j] = ";"
  /\ cat.process_data # None
  /\ cat.process_data[1].kind = "McpServer"

Collected(values, e) == \E j \in 1 .. Len(values) : values[j][1] = e

\* C17: during an MCP install, Processing is not entered while a queued
\* server has a required variable that is neither in the environment nor
\* collected by the prompt for that server, and every dispatched server's
\* install command gets the variables that were missing for it.
C17_NoProcessingWithMissingSecret ==
  (cat.current_view = "Installing" /\ ~cat.is_removing /\ cat.tab = "McpServers")
    => /\ \A k \in 1 .. Len(cat.processing_queue) :
            LET idx == cat.processing_queue[k]
                env == cat.mcp_servers[idx + 1].def.env
            IN \A n \in 1 .. Len(env) :
                 \/ env[n] \in cat.environ
                 \/ /\ cat.env_input_server_idx = Some(idx)
                    /\ Collected(cat.env_input_values, env[n])
       /\ cat.process_data # None =>
            LET env == cat.process_data[1].def.env IN
            \A n \in 1 .. Len(env) :
               \/ env[n] \in cat.environ
               \/ Collected(cat.process_data[1].env_values, env[n])

\* ---- settings claims
\* The entries listed under an event of a document ("hooks" or the event
\* absent: none)
EventEntries(doc, event) ==
  IF "hooks" \in DOMAIN doc.map /\ event \in DOMAIN doc.map["hooks"].map
  THEN doc.map["hooks"].map[event].items ELSE <<>>

HookEvents(doc) ==
  IF "hooks" \in DOMAIN doc.map THEN DOMAIN doc.map["hooks"].map ELSE {}

Entries(seq) == {seq[i] : i \in 1 .. Len(seq)}

\* C18: merging a source document into an existing one keeps, per hook
\* event, all existing entries and appends every source entry not already
\* present by full entry equality (A in the source and B existing give both),
\* and merging the same source once more changes nothing.
C18_MergeAppendsMissingHooks ==
  (disk.hist.op = "merge" /\ disk.hist.dest # None) =>
    /\ \A event \in HookEvents(disk.source) \cup HookEvents(disk.hist.dest[1]) :
         LET existing == EventEntries(disk.hist.dest[1], event)
             src == EventEntries(disk.source, event)
             merged == EventEntries(disk.dest[1], event)
         IN /\ Len(merged) >= Len(existing)
            /\ SubSeq(merged, 1, Len(existing)) = existing
            /\ Entries(src) \subseteq Entries(merged)
            /\ \A i \in (Len(existing) + 1) .. Len(merged) :
                 /\ merged[i] \in Entries(src) \ Entries(existing)
                 /\ \A j \in (Len(existing) + 1) .. Len(merged) :
                      i # j => merged[i] # merged[j]
    /\ merge_settings_json(disk.source, disk.dest) = disk.dest[1]

\* C18 witness: the source lists command A and the existing file command B
\* under the same event, and the merged file lists B then A.
C18_Witness ==
  /\ disk.hist.op = "merge" /\ disk.hist.dest # None
  /\ EventEntries(disk.source, "UserPromptSubmit") = <<HookEntry("A")>>
  /\ EventEntries(disk.hist.dest[1], "UserPromptSubmit") = <<HookEntry("B")>>
  /\ EventEntries(disk.dest[1], "UserPromptSubmit") = <<HookEntry("B"), HookEntry("A")>>

ManagedKeys == {"hooks", "outputStyle", "statusLine"}

C29_CollapseParentMovesToParent ==
  (/\ tree_hist.op = "collapse_parent"
   /\ current_node_idx(tree_hist.tree) # None
   /\ LET par == tree_hist.tree.nodes[CursorNode(tree_hist.tree) + 1].parent_idx
      IN par # None /\ tree_hist.tree.nodes[par[1] + 1].expanded)
    => LET par == tree_hist.tree.nodes[CursorNode(tree_hist.tree) + 1].parent_idx[1]
       IN /\ ~tree.nodes[par + 1].expanded
          /\ \A n \in NodeIds(tree) \ {par} :
               tree.nodes[n + 1].expanded = tree_hist.tree.nodes[n + 1].expanded
          /\ Len(tree.nodes) = Len(tree_hist.tree.nodes)
          /\ tree.cursor < Len(tree.visible_indices)
          /\ tree.visible_indices[tree.cursor + 1] = par

\* C29 witness: collapse_parent was called on a node of a nested folder that
\* is not the first visible row, and the cursor moved.
C29_Witness ==
  /\ tree_hist.op = "collapse_parent"
  /\ current_node_idx(tree_hist.tree) # None
  /\ LET par == tree_hist.tree.nodes[CursorNode(tree_hist.tree) + 1].parent_idx
     IN /\ par # None /\ tree_hist.tree.nodes[par[1] + 1].expanded
        /\ tree_hist.tree.nodes[par[1] + 1].parent_idx # None
  /\ tree.cursor > 0 /\ tree.cursor # tree_hist.tree.cursor

\* C30: whenever visible_indices is non-empty the cursor lies in
\* 0 .. len - 1; next() from the last row goes to 0, prev() from 0 goes to the
\* last row, and next() followed by prev() puts the cursor back.
C30_CursorInRangeAndWraps ==
  tree.visible_indices # <<>> =>
    LET last == Len(tree.visible_indices) - 1 IN
    /\ tree.cursor \in 0 .. last
    /\ tree.cursor = last => next(tree).cursor = 0
    /\ tree.cursor = 0 => prev(tree).cursor = last
    /\ prev(next(tree)).cursor = tree.cursor
    /\ (tree_hist.op = "next" /\ tree_hist.tree.cursor = last) => tree.cursor = 0
    /\ (tree_hist.op = "prev" /\ tree_hist.tree.cursor = 0) => tree.cursor = last

\* C30 witness: next() was called on the last of three or more rows.
C30_Witness ==
  /\ tree_hist.op = "next" /\ Len(tree.visible_indices) >= 3
  /\ tree_hist.tree.cursor = Len(tree.visible_indices) - 1
  /\ tree.cursor = 0

\* ------------------------------------------------ process runner outcomes
\* The result the wait arm gives for an exit status and the captured stderr.
ExitResult(th) ==
  IF th.status = 0
  THEN [outcome |-> "Success", ok |-> TRUE]
  ELSE [outcome |-> "Failure", ok |-> FALSE]

\* C25 (as stated): whenever the child exited on its own, the runner's result
\* is Success for status zero and Failure for any other status, also when a
\* cancellation signal is pending or the deadline has elapsed at that poll.
C25_NaturalExitDecidedByStatus ==
  \A o \in Ops :
    LET th == threads[o] IN
    (RunnerReturned(th) /\ th.exited /\ ~th.wait_failed)
      => th.outcome = ExitResult(th).outcome

\* C26: the cleanup closure runs only when the runner returns TimedOut or
\* Cancelled, with the child killed and no longer running, at most once, never
\* on success, non-zero exit, spawn error or wait error; and what the closure
\* returns does not change the kind of outcome.
C26_CleanupOnlyOnTimeoutOrCancel ==
  \A o \in Ops :
    LET th == threads[o] IN
    /\ th.cleanup_calls \in {0, 1}
    /\ th.cleanup_calls = 1 =>
         /\ RunnerReturned(th) /\ th.has_cleanup
         /\ th.outcome \in {"TimedOut", "Cancelled"}
         /\ th.child = "reaped"
    /\ (RunnerReturned(th)
        /\ th.outcome \in {"Success", "Failure", "SysErr", "SpawnErr"})
         => th.cleanup_calls = 0
    /\ (Running /\ th.pc = "deadline") =>
         runner_deadline(State, o, TRUE).threads[o].outcome
           = runner_deadline(State, o, FALSE).threads[o].outcome
    /\ (Running /\ th.pc = "cancel") =>
         runner_cancel(State, o, TRUE).threads[o].outcome
           = runner_cancel(State, o, FALSE).threads[o].outcome

\* A runner timed out, killed its running child and ran a cleanup closure that
\* returned false.
C26_Witness ==
  \E o \in Ops :
    /\ RunnerReturned(threads[o]) /\ threads[o].outcome = "TimedOut"
    /\ threads[o].killed /\ threads[o].cleanup_calls = 1
    /\ ~threads[o].cleanup_ok

\* What a runner invocation hands back to its caller: the anyhow result.
Returned(S, o) == S.threads[o].result

\* C27 (as stated): when a runner with a cleanup closure times out or is
\* cancelled, the value it returns differs between a closure that returned
\* true and one that returned false.
C27_CleanupResultDistinguishable ==
  \A o \in Ops :
    LET th == threads[o] IN
    /\ (Running /\ th.pc = "deadline" /\ th.has_cleanup /\ th.elapsed >= th.timeout)
         => Returned(runner_deadline(State, o, TRUE), o)
              # Returned(runner_deadline(State, o, FALSE), o)
    /\ (Running /\ th.pc = "cancel" /\ th.has_cleanup /\ cancel_chan[th.rx] # <<>>)
         => Returned(runner_cancel(State, o, TRUE), o)
              # Returned(runner_cancel(State, o, FALSE), o)

\* An execution thread that has ended: it sent its result, or it crashed.
ThreadEnded(th) == th.pc \in {"done", "crashed"}

\* C23 (as stated): when the thread of the in-flight operation has ended,
\* however it ended, the next tick of the Installing view appends at least one
\* result line to the log and advances the progress counter by exactly one.
C23_CompletionLoggedAndCounted ==
  \A o \in Ops :
    (/\ Running /\ app.current_view = "Installing"
     /\ channels.processing_active /\ ThreadEnded(threads[o]))
      => LET T == handle_installing_view(State, "None") IN
         /\ \E i \in Len(app.processing_log) + 1 .. Len(T.app.processing_log) :
              IsResultLine(T.app.processing_log[i])
         /\ unwrap_or(T.app.processing_progress, 0)
              = unwrap_or(app.processing_progress, 0) + 1

\* The artifact index named by a dispatch line "Installing <name>...".
StartIdx(l) == CHOOSE k \in Items : ItemName(k) = l[2]

\* The session saw no user cancellation: Esc was never accepted.
NoCancellation ==
  \A i \in 1 .. Len(app.processing_log) : app.processing_log[i] # WarnCancelling

\* C22 (as stated): within a Processing session the dispatch lines name
\* strictly ascending artifact indices (queue order, no index twice), and a
\* session that completes without a user cancellation has dispatched every
\* queued index.
C22_FifoEachOnce ==
  app.current_view = "Installing" =>
    /\ \A i, j \in 1 .. Len(app.processing_log) :
         (/\ i < j
          /\ IsStartLine(app.processing_log[i])
          /\ IsStartLine(app.processing_log[j]))
           => StartIdx(app.processing_log[i]) < StartIdx(app.processing_log[j])
    /\ (app.processing_complete /\ NoCancellation)
         => LogCount(IsStartLine) = unwrap_or(app.processing_total, 0)

\* What is left of a runner's time budget.
Remaining(th) == th.timeout - th.elapsed

\* C24 (as stated): a plugin install has one time budget from dispatch; when
\* its "add marketplace" runner sees the child exit successfully, the
\* "install plugin" runner that follows gets no more than the time that was
\* left, never a fresh full timeout.
C24_OneBudgetPerOperation ==
  \A o \in Ops :
    LET th == threads[o] IN
    (/\ Running /\ th.pc = "wait" /\ th.stage = "add"
     /\ th.child = "zombie" /\ th.status = 0)
      => LET next_th == runner_wait(State, o, FALSE).threads[o] IN
         /\ next_th.stage = "main" /\ next_th.pc = "spawn"
         /\ Remaining(next_th) <= Remaining(th)

\* ------------------------------------------------------ view transitions
\* The transitions the interaction state machine is said to have.
ListedEdges ==
  { <<"CliSelection", "Loading">>, <<"Loading", "List">>,
    <<"List", "Diff">>, <<"List", "EnvInput">>, <<"List", "ProjectPath">>,
    <<"List", "Installing">>, <<"EnvInput", "Installing">>,
    <<"Diff", "List">>, <<"EnvInput", "List">>, <<"ProjectPath", "List">>,
    <<"Installing", "List">> }

\* Every change of view is one of edges, and the secret prompt hands over to
\* Processing only with a value collected for every variable it asked for.
ViewStepsWithin(edges) ==
  /\ cat.current_view' # cat.current_view
       => <<cat.current_view, cat.current_view'>> \in edges
  /\ (cat.current_view = "EnvInput" /\ cat.current_view' = "Installing")
       => Len(cat.env_input_values') = Len(cat.env_input_vars)

\* C28 (as stated): CliSelection is the initial view and the view changes
\* only along the listed transitions.
C28_OnlyListedTransitions ==
  cat.current_view = "CliSelection" /\ [][ViewStepsWithin(ListedEdges)]_vars

\* C28 (amended): CliSelection is the initial view and the view changes only
\* along the listed transitions or from Loading back to CliSelection when the
\* scan fails.
C28_ListedTransitionsOrScanFailure ==
  /\ cat.current_view = "CliSelection"
  /\ [][ViewStepsWithin(ListedEdges \cup {<<"Loading", "CliSelection">>})]_vars

\* A failed scan has brought the user back to the CLI choice.
C28_Witness == cat.current_view = "CliSelection" /\ cat.target_cli # None

\* ------------------------------------------------------------ termination
\* One step of execution thread o (every step but a crash).
ThreadStep(o) ==
  \/ \E ok \in BOOLEAN : ThreadFs(o, ok)
  \/ \E found \in BOOLEAN : ThreadMarketplaceList(o, found)
  \/ \E ok \in BOOLEAN : ThreadSpawn(o, ok)
  \/ \E ret \in BOOLEAN : RunnerDeadline(o, ret)
  \/ \E failed \in BOOLEAN : RunnerWait(o, failed)
  \/ \E ret \in BOOLEAN : RunnerCancel(o, ret)

\* The program without thread crashes.
FairNext ==
  \/ \E key \in CliKeys : CliSelectionKey(key)
  \/ \E key \in LoadingKeys : LoadingTick(key)
  \/ ListQuit
  \/ \E idx \in TabKeys : ListSetTab(idx)
  \/ \E sel \in SUBSET Items : ListInstall(sel)
  \/ \E sel \in SUBSET Items : ListRemove(sel)
  \/ \E key \in InstallingKeys : InstallingTick(key)
  \/ \E ok \in BOOLEAN : ScanFinish(ok)
  \/ \E o \in Ops, ok \in BOOLEAN : ThreadFs(o, ok)
  \/ \E o \in Ops, found \in BOOLEAN : ThreadMarketplaceList(o, found)
  \/ \E o \in Ops, ok \in BOOLEAN : ThreadSpawn(o, ok)
  \/ \E o \in Ops, ret \in BOOLEAN : RunnerDeadline(o, ret)
  \/ \E o \in Ops, failed \in BOOLEAN : RunnerWait(o, failed)
  \/ \E o \in Ops, ret \in BOOLEAN : RunnerCancel(o, ret)
  \/ \E o \in Ops, e \in ExitInputs : ChildExit(o, e)
  \/ \E o \in Ops : TimePasses(o)

\* Threads are scheduled and the wall clock advances: a scan ends, a thread
\* takes its next step, and time passes for a runner in its loop.
LiveSpec ==
  /\ Init /\ [][FairNext]_vars
  /\ WF_vars(\E ok \in BOOLEAN : ScanFinish(ok))
  /\ \A o \in Ops : WF_vars(ThreadStep(o)) /\ WF_vars(TimePasses(o))

\* A tick of the Installing view without a key would change the state.
TickEnabled ==
  /\ Running /\ app.current_view = "Installing"
  /\ handle_installing_view(State, "None") # State

\* UI ticks keep occurring: weak fairness of the key-less tick.
TickFair == []<>(~TickEnabled) \/ []<><<InstallingTick("None")>>_vars

\* C21: if UI ticks keep occurring (and threads run to their result), every
\* Processing session eventually reaches processing_complete = true.
C21_SessionCompletes ==
  TickFair => ((app.current_view = "Installing") ~> app.processing_complete)

\* A session of two operations completed after a cancellation was accepted.
C21_Witness ==
  /\ app.current_view = "Installing" /\ app.processing_complete
  /\ op_seq >= 2
  /\ \E i \in 1 .. Len(app.processing_log) : app.processing_log[i] = WarnCancelling

\* C35 (as stated): a runner whose child exited by itself with status zero
\* while less than the timeout had elapsed never returns TimedOut.
C35_ExitBeforeDeadlineNeverTimedOut ==
  \A o \in Ops :
    LET th == threads[o] IN
    (RunnerReturned(th) /\ th.exited /\ th.exited_early /\ th.status = 0)
      => th.outcome # "TimedOut"

\* The log line of a wait-syscall error.
SysErrLine == <<"[ERR]">> \o SysErrMsg

\* C33: a wait error ends the runner with the system-error outcome (an error,
\* never Success, TimedOut or Cancelled) with the child no longer running, and
\* the tick that receives it, whatever key comes with it, logs it as an
\* "[ERR]" line, counts it and goes on with the queue: the next item is
\* dispatched, or the refresh phase is entered when none is left.
C33_WaitErrorIsSystemError ==
  /\ \A o \in Ops :
       LET th == threads[o] IN
       RunnerReturned(th) =>
         /\ th.wait_failed <=> th.outcome = "SysErr"
         /\ th.wait_failed =>
              /\ ~th.result.ok /\ th.result.msg = SysErrMsg
              /\ th.child # "running"
  /\ (/\ Running /\ app.current_view = "Installing"
      /\ channels.processing_active /\ process_chan # <<>>
      /\ Head(process_chan).outcome = "SysErr")
       => \A key \in InstallingKeys :
            LET T == handle_installing_view(State, key) IN
            /\ \E i \in Len(app.processing_log) + 1 .. Len(T.app.processing_log) :
                 T.app.processing_log[i] = SysErrLine
            /\ unwrap_or(T.app.processing_progress, 0)
                 = unwrap_or(app.processing_progress, 0) + 1
            /\ app.processing_queue # <<>> =>
                 /\ T.op_seq = op_seq + 1
                 /\ T.app.processing_queue = Tail(app.processing_queue)
                 /\ T.threads[T.op_seq].idx = Head(app.processing_queue)
            /\ app.processing_queue = <<>> =>
                 ~T.channels.processing_active /\ T.app.needs_refresh

\* A wait error was logged and the next queued item was dispatched after it.
C33_Witness ==
  /\ op_seq >= 2
  /\ \E i, j \in 1 .. Len(app.processing_log) :
       /\ i < j
       /\ app.processing_log[i] = SysErrLine
       /\ IsStartLine(app.processing_log[j])

\* The notices the Dispatcher logs for a cancelled or timed-out operation.
CleanupNotices ==
  { <<"[WARN] Cancelled by user">>,
    <<"[INFO] Cleaning up cancelled installation...">>,
    <<"[INFO] Cleaning up timed out installation...">> }

\* C34 (as stated): the tick that receives a process Failure (non-zero exit),
\* whatever its stderr text, logs it as a plain "[ERR]" line without any
\* cancellation or timeout notice and keeps the queue: the next queued item
\* is dispatched.
C34_FailureClassifiedByKind ==
  (/\ Running /\ app.current_view = "Installing"
   /\ channels.processing_active /\ process_chan # <<>>
   /\ Head(process_chan).outcome = "Failure")
    => LET T == handle_installing_view(State, "None")
           n == Len(app.processing_log)
       IN /\ Len(T.app.processing_log) > n
          /\ T.app.processing_log[n + 1] = <<"[ERR]">> \o Head(process_chan).msg
          /\ \A i \in n + 1 .. Len(T.app.processing_log) :
               T.app.processing_log[i] \notin CleanupNotices
          /\ app.processing_queue # <<>> =>
               /\ T.op_seq = op_seq + 1
               /\ T.app.processing_queue = Tail(app.processing_queue)

\* C36: app.cancelling is set only while an operation is in flight in the
\* Installing view; the step that dispatches an item leaves it false with the
\* new operation in flight, and so does every step that leaves the
\* Installing view.
C36_CancellingOnlyInFlight ==
  /\ [](app.cancelling =>
          channels.processing_active /\ app.current_view = "Installing")
  /\ [][ /\ op_seq' # op_seq =>
              ~app'.cancelling /\ channels'.processing_active
         /\ (app.current_view = "Installing"
               /\ app'.current_view # "Installing") =>
              ~app'.cancelling /\ ~channels'.processing_active ]_vars

\* A second operation is in flight and not being cancelled after the first
\* one was cancelled.
C36_Witness ==
  /\ op_seq = 2 /\ ThreadLive(threads[2])
  /\ channels.processing_active /\ ~app.cancelling
  /\ \E i \in 1 .. Len(app.processing_log) :
       app.processing_log[i] = <<"[WARN] Cancelling current operation...">>

\* The number of "[WARN] Cancelling current operation..." lines in a log.
CancelNoticeCount(log) ==
  Cardinality({i \in 1 .. Len(log) : log[i] = WarnCancelling})

\* From S to T no cancel channel received a signal and no cancellation
\* notice was logged.
NothingSent(S, T) ==
  /\ \A c \in Chans : T.cancel_chan[c] \in {S.cancel_chan[c], <<>>}
  /\ \A o \in Ops : T.threads[o].cancel_sends <= S.threads[o].cancel_sends
  /\ CancelNoticeCount(T.app.processing_log)
       <= CancelNoticeCount(S.app.processing_log)

\* C37: with no operation in flight (before the first dispatch, during the
\* refresh scan, after completion) a tick of the Installing view that
\* delivers Esc sends nothing on any cancel channel and logs no cancellation
\* notice; and no step at all puts a signal on a cancel channel unless an
\* operation is in flight in the Installing view.
C37_CancelOnlyInFlight ==
  /\ []((Running /\ app.current_view = "Installing"
           /\ ~channels.processing_active)
          => NothingSent(State, handle_installing_view(State, "Esc")))
  /\ [][ (\E c \in Chans : Len(cancel_chan'[c]) > Len(cancel_chan[c]))
           => channels.processing_active
                /\ app.current_view = "Installing" ]_vars

\* The refresh scan runs after an operation whose cancellation was requested:
\* Esc arrives with nothing in flight and a cancellation notice in the log.
C37_Witness ==
  /\ Running /\ app.current_view = "Installing"
  /\ ~channels.processing_active /\ app.refreshing /\ scan_thread = "running"
  /\ op_seq >= 1
  /\ CancelNoticeCount(app.processing_log) = 1

\* The step consumes a successful scan result: finish_loading or
\* apply_refresh_result replaces the artifact lists and the tree views.
ListsReplaced ==
  /\ refresh_chan # <<>> /\ Head(refresh_chan).ok
  /\ refresh_chan' = Tail(refresh_chan)

\* The kind of artifact the rows of a tab are.
TabKind(tab) ==
  CASE tab = "McpServers" -> "McpServer"
    [] tab = "Plugins" -> "Plugin"
    [] OTHER -> "Component"

\* s is q or what is left of q after removing elements from its front.
IsQueueRest(s, q) ==
  \E k \in 0 .. Len(q) : s = SubSeq(q, k + 1, Len(q))

\* C38: the artifact lists are replaced only with an empty queue and nothing
\* in flight; while the Installing view is shown the active tab stays and the
\* queue only loses elements from its front; and a dispatched operation
\* carries the index at the front of the queue with the kind of the active
\* tab.
C38_QueueIndicesStayValid ==
  [][ /\ ListsReplaced =>
           /\ app.processing_queue = <<>>
           /\ ~channels.processing_active
           /\ LiveThreads(State) = {}
      /\ app.current_view = "Installing" =>
           /\ app'.tab = app.tab
           /\ IsQueueRest(app'.processing_queue, app.processing_queue)
      /\ op_seq' # op_seq =>
           /\ ~ListsReplaced
           /\ threads'[op_seq'].idx = Head(app.processing_queue)
           /\ threads'[op_seq'].kind = TabKind(app.tab) ]_vars

\* The second plugin of a two-plugin queue is in flight.
C38_Witness ==
  /\ op_seq = 2 /\ ThreadLive(threads[2])
  /\ app.tab = "Plugins" /\ threads[2].kind = "Plugin"
  /\ app.processing_total = Some(2) /\ app.processing_progress = Some(1)

\* The Installing view is entered with a non-empty queue, progress 0 and
\* total equal to the queue length.
EntersWithFullQueue ==
  (app.current_view # "Installing" /\ app'.current_view = "Installing") =>
    /\ app'.processing_queue # <<>>
    /\ app'.processing_progress = Some(0)
    /\ app'.processing_total = Some(Len(app'.processing_queue))

\* Within a session progress stays between 0 and total.
ProgressWithinTotal ==
  app.current_view = "Installing" =>
    /\ app.processing_progress # None /\ app.processing_total # None
    /\ 0 <= app.processing_progress[1]
    /\ app.processing_progress[1] <= app.processing_total[1]

\* C39 (as stated): the Installing view is entered only with a non-empty
\* queue, progress 0 and total equal to the queue length; during the session
\* 0 <= progress <= total; and a session that completes without an accepted
\* cancellation has progress = total.
C39_ProgressReachesTotal ==
  /\ [](ProgressWithinTotal)
  /\ []((app.current_view = "Installing" /\ app.processing_complete
           /\ NoCancellation)
          => app.processing_progress = app.processing_total)
  /\ [][EntersWithFullQueue]_vars

\* ---- the shape of a built tree
\* The names the tree was built from, in input order.
InputNames == [i \in 1 .. Len(components) |-> components[i].name]

\* 0-based indices of the nodes of the tree.
NodeIdx == 0 .. (Len(tree.nodes) - 1)
NodeAt(i) == tree.nodes[i + 1]
Folders == {i \in NodeIdx : NodeAt(i).is_folder}
Leaves == {i \in NodeIdx : ~NodeAt(i).is_folder}

\* The places (folder, position) where node i is listed as a child.
ListedAt(i) ==
  UNION {{<<f, k>> : k \in {k \in 1 .. Len(NodeAt(f).children) :
                              NodeAt(f).children[k] = i}} : f \in Folders}

\* The folder paths a name passes through: the joined proper prefixes of its
\* segments.
PathPrefixes(name) ==
  LET parts == split(name) IN
  {join(SubSeq(parts, 1, k)) : k \in 1 .. (Len(parts) - 1)}

\* A list of node indices is in the order the nodes were created.
InInsertionOrder(list) ==
  \A a, b \in 1 .. Len(list) : a < b => list[a] < list[b]

RECURSIVE OkLines(_)
OkLines(results) ==
  IF results = <<>> THEN <<>>
  ELSE (IF Head(results).ok THEN <<Head(results).line>> ELSE <<>>)
         \o OkLines(Tail(results))

\* The first k of lines, each followed by its newline.
RECURSIVE Captured(_, _)
Captured(lines, k) ==
  IF k = 0 THEN <<>>
  ELSE (Captured(lines, k - 1) \o lines[k]) \o <<"\n">>

\* How many leading lines fit under the ceiling together.
FitCount(lines) ==
  CHOOSE k \in 0 .. Len(lines) :
    /\ Len(Captured(lines, k)) <= MAX_STDERR_BYTES
    /\ \A m \in (k + 1) .. Len(lines) :
         Len(Captured(lines, m)) > MAX_STDERR_BYTES

\* C32: the reader holds at most MAX_STDERR_BYTES of captured text, followed
\* by at most one truncation marker; while it reads, its output is every
\* decoded line read so far, complete and in order; when it has returned,
\* the output is the leading lines that fit under the ceiling, followed by
\* the marker exactly when a further line was left out, and nothing after it.
C32_StderrCaptureBounded ==
  LET out == reader.output
      text == SelectSeq(out, LAMBDA tok : tok # TruncationMarker)
      seen == OkLines(SubSeq(reader.input, 1, reader.pos))
      all == OkLines(reader.input)
  IN /\ Len(text) <= MAX_STDERR_BYTES
     /\ out \in {text, Append(text, TruncationMarker)}
     /\ reader.pc = "loop" => out = Captured(seen, Len(seen))
     /\ reader.pc = "returned" =>
          /\ text = Captured(all, FitCount(all))
          /\ (out # text) <=> (FitCount(all) < Len(all))
     /\ out # text => reader.pc = "returned"

\* The reader returned a capture of two lines that fills the ceiling exactly,
\* followed by the marker.
C32_Witness ==
  /\ reader.pc = "returned"
  /\ Len(reader.output) = MAX_STDERR_BYTES + 1
  /\ reader.output[Len(reader.output)] = TruncationMarker
  /\ reader.pos >= 3

\* ---- hook registration
\* The "hooks" section of a settings file, if any.
HooksSection(dest) ==
  IF dest # None /\ "hooks" \in DOMAIN dest[1].map
  THEN Some(dest[1].map["hooks"]) ELSE None

\* The entries of an event's array in a settings file (none when absent).
HookEventEntries(dest, event) ==
  LET h == HooksSection(dest) IN
  IF h # None /\ event \in DOMAIN h[1].map THEN h[1].map[event].items ELSE <<>>

\* The entry was registered for the hook: it runs the hook's command path.
RegisteredFor(item, config) == hook_command_path(config) \in entry_commands(item)

\* C40 (as stated): for every hook, unregistering it leaves in its event
\* array exactly the entries not registered for it, in their order, and
\* leaves every other event alone; registering a hook that is not registered
\* and then unregistering it gives back the hooks section as it was; and
\* registering it a second time changes nothing and leaves one entry for it.
C40_UnregisterRemovesOnlyOwnEntries ==
  \A config \in HookConfigs :
    LET un == unregister_hook_from_settings(disk.dest, config).dest
        reg == register_hook_in_settings(disk.dest, config)
        others == {e \in {"Stop", "PreToolUse"} : e # config.event}
    IN /\ HookEventEntries(un, config.event)
            = SelectSeq(HookEventEntries(disk.dest, config.event),
                        LAMBDA item : ~RegisteredFor(item, config))
       /\ \A e \in others : HookEventEntries(un, e) = HookEventEntries(disk.dest, e)
       /\ ~hook_exists_in_array(HookEventEntries(disk.dest, config.event),
                                hook_command_path(config))
            => HooksSection(unregister_hook_from_settings(reg, config).dest)
                 = HooksSection(disk.dest)
       /\ register_hook_in_settings(reg, config) = reg
       /\ Cardinality({i \in 1 .. Len(HookEventEntries(reg, config.event)) :
                         RegisteredFor(HookEventEntries(reg, config.event)[i], config)})
            = 1

====
